---- MODULE Spec2Model ----
(***************************************************************************)
(* Sandboxed execution harness of mcp-code-exec                            *)
(*   app/agent_core/harness.py        ExecutionHarness                     *)
(*   app/agent_core/code_executor.py  CodeExecutor (legacy)                *)
(*                                                                         *)
(* Spec      execute_async: requests raced against a deadline, their       *)
(*           scripts run by execute_sync_no_signal on pool worker threads  *)
(* SpecSync  execute_sync and CodeExecutor.execute: SIGALRM based timeout  *)
(* SpecOpen  _safe_open: the workspace file gate                           *)
(* SpecEnv   _prepare_environment / _get_safe_builtins: the namespace      *)
(* SpecFair  Spec with the loop and the pool threads kept running          *)
(* SpecLeak, SpecCatalog, SpecSearch, SpecCache                            *)
(*           servers/discovery.py: namespaces, catalog, search, cache      *)
(* SpecServers   list_servers of ToolDiscovery and of ToolExplorer         *)
(* SpecMetrics   monitoring.py: Metrics.save_to_log                        *)
(* SpecValidate  CodeExecutor.validate_code                                *)
(* SpecWrap      execute_sync_no_signal on scripts that only print         *)
(***************************************************************************)
EXTENDS Integers, Sequences, FiniteSets, TLC

(***************************************************************************)
(* Bounds                                                                  *)
(***************************************************************************)
NReq == 2
MaxElapsed == 3
timeout_seconds == 2

Req == 1..NReq

(***************************************************************************)
(* Scripts.  A script is a sequence of operations:                         *)
(*   "out"   print() : one write to whatever sys.stdout is at that moment  *)
(*   "err"   one write to whatever sys.stderr is at that moment            *)
(*   "sleep" time.sleep(1)                                                 *)
(*   "raise" raise ValueError                                              *)
(*   "import_missing"  import of a module that is not installed            *)
(*   "exit"  sys.exit()  (sys is bound in the namespace)                   *)
(*   "syntax" the text does not compile: exec raises SyntaxError at once   *)
(***************************************************************************)
Nap(n) == [i \in 1..n |-> "sleep"]

Runaway == <<"out">> \o Nap(timeout_seconds + 1) \o <<"out">>

\* writes to stderr, then outlives the budget
Complainer == <<"err">> \o Nap(timeout_seconds + 1)

Scripts ==
  { <<"out", "out">>,
    <<"out", "sleep", "out">>,
    Runaway,
    Complainer,
    <<"out", "err">>,
    <<"out", "raise">>,
    <<"import_missing">>,
    <<"exit">>,
    <<"syntax">> }

Sleeps(s) == Cardinality({i \in DOMAIN s : s[i] = "sleep"})

\* the text request r prints, and the text it writes to stderr
Char == [r \in 1..4 |-> <<"A", "B", "C", "D">>[r]]
ErrChar == [r \in 1..4 |-> <<"a", "b", "c", "d">>[r]]

\* the exception an operation raises ("None": it does not raise)
Raises(op) ==
  CASE op = "raise" -> "ValueError"
    [] op = "import_missing" -> "ImportError"
    [] op = "exit" -> "SystemExit"
    [] op = "syntax" -> "SyntaxError"
    [] OTHER -> "None"

\* SystemExit derives from BaseException, the others from Exception
IsException(k) == k \in {"ValueError", "ImportError", "SyntaxError", "ExecutionTimeout",
                          "TimeoutError", "PermissionError", "NameError"}

VARIABLES
  \* ---- execute_async / execute_sync_no_signal
  max_workers,     \* size of the loop's default thread pool
  sys_stdout,      \* process-wide sys.stdout: 0 the original stream, r the StringIO of request r
  sys_stderr,      \* process-wide sys.stderr
  code,            \* code[r]: the script of request r
  caller,          \* caller[r]: "new", "waiting", "returned", "raised"
  waited,          \* waited[r]: seconds since wait_for armed the deadline of r
  ret,             \* ret[r]: the results execute_async has returned (a sequence)
  escaped,         \* escaped[r]: the exception execute_async raised, or "None"
  pc,              \* pc[r]: position of the worker running execute_sync_no_signal
  ip,              \* ip[r]: next operation of the script
  elapsed,         \* elapsed[r]: time.time() - elapsed of the worker of r
  stdout_capture,  \* stdout_capture[r]: the StringIO
  stderr_capture,
  old_out,         \* redirect_stdout._old_targets
  old_err,
  exc,             \* exception in flight in the worker, or "None"
  fut,             \* results the worker's future holds (a sequence)
  fut_exc,         \* exception the worker's future holds, or "None"
  \* ---- execute_sync / CodeExecutor.execute (one call)
  entry,           \* "execute_sync", "execute", or "idle"
  main_thread,     \* the call is made from the main thread
  script,          \* the operations of the script
  guarded,         \* the script wraps its body in  try: ... except Exception: pass
  spc,             \* position in the entry point
  sip,             \* next operation of the script
  clock,           \* time.time() - start_time
  alarm_at,        \* clock value at which SIGALRM is due, -1 when no alarm is set
  handler,         \* installed SIGALRM handler: "default", "harness", "legacy"
  old_handler,     \* execute_sync's old_handler: "None" or the saved handler
  result,          \* the result dictionary
  sync_stdout,     \* stdout_capture of the call
  sync_stderr,     \* stderr_capture of the call
  pending,         \* exception in flight, or "None"
  outcome,         \* "running", "returned", or the exception that left the entry point
  \* ---- _safe_open
  fs_dirs,         \* the directories that exist (canonical paths)
  fs_files,        \* the regular files that exist (canonical paths)
  calls,           \* number of _safe_open calls made
  arg_outside,     \* the last filename argument names a place outside the workspace
  arg_dotdot,      \* the last filename argument contains ".."
  mode,            \* the last mode argument
  open_result,     \* "none", "handle", or the exception the last call raised
  handle_path,     \* the file the returned handle is open on
  touched,         \* the canonical paths the last call made the OS create or open
  \* ---- _prepare_environment / _get_safe_builtins and a script run in the namespace
  executor,        \* "harness" (ExecutionHarness) or "legacy" (CodeExecutor)
  allowed_arg,     \* the allowed_modules argument of the constructor ({}: None or empty)
  exec_globals,    \* the names bound in the globals handed to exec
  safe_builtins,   \* the names bound in exec_globals["__builtins__"]
  epc,             \* "new", "built" (script running), "done"
  tried,           \* the modules the script has asked to import or use
  env_error,       \* how the run ended: "None" (success) or the beginning of the error
  \* ---- successive and concurrent executions in one process
  namespaces,      \* namespaces[r]: exec_globals of execution r, a set of <<name, value>>
  lpc,             \* lpc[r]: "new", "running", "done"
  attrs,           \* attrs[o]: the executions that have set an attribute on process-wide object o
  observed,        \* observed[r]: the executions whose writes the script of r has read
  \* ---- ToolDiscovery: the catalog operations
  cat_calls,       \* number of catalog calls made
  cat_op,          \* the last operation called ("none" before the first)
  cat_path,        \* the path the arguments of the last call name, as the OS sees it
  cat_out,         \* what the last call did: "returned" or the exception it raised
  cat_read,        \* the canonical paths whose text or listing the last call read
  cat_value,       \* the list the last call returned (<<>> for a text or a failure)
  \* ---- ToolDiscovery: the instance and its embedding cache
  api_key,         \* settings.openai_api_key is configured
  openai_client,   \* self._openai_client has been created
  embeddings_cache,\* self.embeddings_cache: the entries [key, vec] in insertion order
  cache_loaded,    \* self._cache_loaded
  cache_file,      \* the cache file: whether it exists, and its bytes
  \* ---- search_tools called one call after the other
  search_args,     \* the arguments of the last call
  search_result,   \* what the last call did
  \* ---- _semantic_search run by concurrent tasks of one event loop
  task_pc,         \* task_pc[t]: the await each task is suspended at
  task_at,         \* task_at[t]: the scan position of the tool task t is at
  task_bytes,      \* task_bytes[t]: the bytes task t has handed to f.write
  embed_calls,     \* the cache keys of the embedding calls made, in order
  added,           \* the cache keys the tasks have stored in the cache
  \* ---- list_servers of ToolDiscovery and of ToolExplorer over one root
  server_tree,     \* server_tree[n]: what the entry named n of the root is
  list_call,       \* the last list_servers call: who, on which tree, the list
  \* ---- Metrics.save_to_log at the end of AgentOrchestrator.execute
  wall_clock,      \* datetime.now(), in whole seconds
  start_time,      \* start_time[e]: metrics.start_time of execution e
  run_pc,          \* run_pc[e]: "new", "started" or "saved"
  log_files,       \* log_files[t]: the content of logs/run_<t>.json
  \* ---- CodeExecutor.validate_code
  checked_code,    \* the script last handed to validate_code
  verdict,         \* the (is_valid, error_message) it returned
  \* ---- execute_sync_no_signal on scripts that only print
  print_script,    \* the script last executed: its print statements
  print_result     \* the result returned for it

asyncVars == <<max_workers, sys_stdout, sys_stderr, code, caller,
               waited, ret, escaped, pc, ip, elapsed, stdout_capture,
               stderr_capture, old_out, old_err, exc, fut, fut_exc>>

syncVars == <<entry, main_thread, script, guarded, spc, sip, clock, alarm_at, handler,
              old_handler, result, sync_stdout, sync_stderr, pending, outcome>>

openVars == <<fs_dirs, fs_files, calls, arg_outside, arg_dotdot, mode, open_result, handle_path, touched>>

envVars == <<executor, allowed_arg, exec_globals, safe_builtins, epc, tried, env_error>>

leakVars == <<namespaces, lpc, attrs, observed>>

catalogVars == <<cat_calls, cat_op, cat_path, cat_out, cat_read, cat_value>>

instanceVars == <<api_key, openai_client, embeddings_cache, cache_loaded, cache_file>>

searchVars == <<search_args, search_result>>

taskVars == <<task_pc, task_at, task_bytes, embed_calls, added>>

serversVars == <<server_tree, list_call>>

metricsVars == <<wall_clock, start_time, run_pc, log_files>>

validateVars == <<checked_code, verdict>>

wrapVars == <<print_script, print_result>>

laterVars == <<serversVars, metricsVars, validateVars, wrapVars>>

restVars == <<leakVars, catalogVars, instanceVars, searchVars, taskVars, laterVars>>

vars == <<asyncVars, syncVars, openVars, envVars, restVars>>

Result(s, o, e, t) == [success |-> s, output |-> o, error |-> e, execution_time_ms |-> t]

STDERR == "[STDERR]"

\* lines 230-233: append stderr if present
AppendStderr(output, stderr_output) ==
  IF stderr_output # <<>> THEN output \o <<STDERR>> \o stderr_output ELSE output

(***************************************************************************)
(* execute_async                                                           *)
(***************************************************************************)
InitAsync ==
  /\ max_workers \in 1..NReq
  /\ sys_stdout = 0
  /\ sys_stderr = 0
  /\ code = [r \in Req |-> <<>>]
  /\ caller = [r \in Req |-> "new"]
  /\ waited = [r \in Req |-> 0]
  /\ ret = [r \in Req |-> <<>>]
  /\ escaped = [r \in Req |-> "None"]
  /\ pc = [r \in Req |-> "none"]
  /\ ip = [r \in Req |-> 1]
  /\ elapsed = [r \in Req |-> 0]
  /\ stdout_capture = [r \in Req |-> <<>>]
  /\ stderr_capture = [r \in Req |-> <<>>]
  /\ old_out = [r \in Req |-> 0]
  /\ old_err = [r \in Req |-> 0]
  /\ exc = [r \in Req |-> "None"]
  /\ fut = [r \in Req |-> <<>>]
  /\ fut_exc = [r \in Req |-> "None"]

callerVars == <<caller, waited, ret, escaped>>
streamVars == <<sys_stdout, sys_stderr>>
captureVars == <<stdout_capture, stderr_capture>>
savedVars == <<old_out, old_err>>
futVars == <<fut, fut_exc>>

\* the deadline of request r has been reached and its caller still waits
Due(r) == caller[r] = "waiting" /\ waited[r] >= timeout_seconds

\* workers of the pool that are occupied
Busy == {r \in Req : pc[r] \notin {"none", "queued", "cancelled", "done"}}

\* execute_async is called: run_in_executor submits the job, wait_for arms the deadline
Submit(r, s) ==
  /\ caller[r] = "new"
  /\ \A q \in Req : q < r => caller[q] # "new"
  /\ caller' = [caller EXCEPT ![r] = "waiting"]
  /\ waited' = [waited EXCEPT ![r] = 0]
  /\ code' = [code EXCEPT ![r] = s]
  /\ pc' = [pc EXCEPT ![r] = "queued"]
  /\ UNCHANGED <<restVars, syncVars, openVars, envVars, max_workers, streamVars, ret, escaped, ip, elapsed, captureVars, savedVars,
                 exc, futVars>>

\* a pool thread takes the job: execute_sync_no_signal lines 172-184
Start(r) ==
  /\ pc[r] = "queued"
  /\ Cardinality(Busy) < max_workers
  /\ elapsed' = [elapsed EXCEPT ![r] = 0]
  /\ stdout_capture' = [stdout_capture EXCEPT ![r] = <<>>]
  /\ stderr_capture' = [stderr_capture EXCEPT ![r] = <<>>]
  /\ pc' = [pc EXCEPT ![r] = "preparing"]
  /\ UNCHANGED <<restVars, syncVars, openVars, envVars, max_workers, streamVars, code, callerVars, ip, savedVars, exc, futVars>>

\* line 188: exec_globals = self._prepare_environment()
Prepare(r) ==
  /\ pc[r] = "preparing"
  /\ pc' = [pc EXCEPT ![r] = "enter_out"]
  /\ UNCHANGED <<restVars, syncVars, openVars, envVars, max_workers, streamVars, code, callerVars, ip, elapsed, captureVars,
                 savedVars, exc, futVars>>

\* line 191: redirect_stdout(stdout_capture).__enter__
EnterStdout(r) ==
  /\ pc[r] = "enter_out"
  /\ old_out' = [old_out EXCEPT ![r] = sys_stdout]
  /\ sys_stdout' = r
  /\ pc' = [pc EXCEPT ![r] = "enter_err"]
  /\ UNCHANGED <<restVars, syncVars, openVars, envVars, max_workers, sys_stderr, code, callerVars, ip,
                 elapsed, captureVars, old_err, exc, futVars>>

\* line 191: redirect_stderr(stderr_capture).__enter__
EnterStderr(r) ==
  /\ pc[r] = "enter_err"
  /\ old_err' = [old_err EXCEPT ![r] = sys_stderr]
  /\ sys_stderr' = r
  /\ pc' = [pc EXCEPT ![r] = "running"]
  /\ ip' = [ip EXCEPT ![r] = 1]
  /\ UNCHANGED <<restVars, syncVars, openVars, envVars, max_workers, sys_stdout, code, callerVars,
                 elapsed, captureVars, old_out, exc, futVars>>

\* a write of text to the stream object target: 0 is the original process
\* stream (outside the program), q the StringIO of request q.  A StringIO
\* whose request has built its result is garbage: nothing reads it again.
WriteTo(target, text, capture) ==
  IF target = 0 \/ pc[target] = "done" THEN capture
  ELSE [capture EXCEPT ![target] = Append(@, text)]

\* line 212: exec(code, exec_globals) -- a print(): the text goes to the current sys.stdout
ScriptOut(r) ==
  /\ pc[r] = "running"
  /\ ip[r] <= Len(code[r])
  /\ code[r][ip[r]] = "out"
  /\ stdout_capture' = WriteTo(sys_stdout, Char[r], stdout_capture)
  /\ ip' = [ip EXCEPT ![r] = @ + 1]
  /\ UNCHANGED <<restVars, syncVars, openVars, envVars, max_workers, streamVars, code, callerVars, pc, elapsed, stderr_capture,
                 savedVars, exc, futVars>>

\* line 212: a write to the current sys.stderr
ScriptErr(r) ==
  /\ pc[r] = "running"
  /\ ip[r] <= Len(code[r])
  /\ code[r][ip[r]] = "err"
  /\ stderr_capture' = WriteTo(sys_stderr, ErrChar[r], stderr_capture)
  /\ ip' = [ip EXCEPT ![r] = @ + 1]
  /\ UNCHANGED <<restVars, syncVars, openVars, envVars, max_workers, streamVars, code, callerVars, pc, elapsed, stdout_capture,
                 savedVars, exc, futVars>>

\* line 212: the script raises (or does not compile); the with block is left
ScriptRaise(r) ==
  /\ pc[r] = "running"
  /\ ip[r] <= Len(code[r])
  /\ Raises(code[r][ip[r]]) # "None"
  /\ exc' = [exc EXCEPT ![r] = Raises(code[r][ip[r]])]
  /\ pc' = [pc EXCEPT ![r] = "exit_err"]
  /\ UNCHANGED <<restVars, syncVars, openVars, envVars, max_workers, streamVars, code, callerVars, ip, elapsed, captureVars,
                 savedVars, futVars>>

\* line 212: exec returns
ScriptEnd(r) ==
  /\ pc[r] = "running"
  /\ ip[r] > Len(code[r])
  /\ pc' = [pc EXCEPT ![r] = "exit_err"]
  /\ UNCHANGED <<restVars, syncVars, openVars, envVars, max_workers, streamVars, code, callerVars, ip, elapsed, captureVars,
                 savedVars, exc, futVars>>

\* request r has a step to take that needs no time to pass: a free pool
\* thread picks up a queued job, a worker that is not inside time.sleep runs
\* on, the loop hands a completed future to its waiting caller
Instant(r) ==
  \/ pc[r] = "queued" /\ Cardinality(Busy) < max_workers
  \/ pc[r] \in {"preparing", "enter_out", "enter_err", "exit_err", "exit_out", "finalize"}
  \/ pc[r] = "running" /\ (ip[r] > Len(code[r]) \/ code[r][ip[r]] # "sleep")
  \/ pc[r] = "done" /\ caller[r] = "waiting"

\* one second passes: every worker inside time.sleep(1) wakes up.  Time
\* passes while every worker sleeps or waits for a pool thread; the event
\* loop fires a deadline as soon as it is reached.
Tick ==
  /\ \A r \in Req : ~Due(r) /\ ~Instant(r)
  /\ \A r \in Busy : elapsed[r] < MaxElapsed
  /\ \E r \in Req : caller[r] = "waiting" \/ r \in Busy
  /\ waited' = [r \in Req |-> IF caller[r] = "waiting" THEN waited[r] + 1 ELSE waited[r]]
  /\ elapsed' = [r \in Req |-> IF r \in Busy THEN elapsed[r] + 1 ELSE elapsed[r]]
  /\ ip' = [r \in Req |->
              IF pc[r] = "running" /\ ip[r] <= Len(code[r]) /\ code[r][ip[r]] = "sleep"
              THEN ip[r] + 1 ELSE ip[r]]
  /\ UNCHANGED <<restVars, syncVars, openVars, envVars, max_workers, streamVars, code, caller, ret, escaped, pc, captureVars,
                 savedVars, exc, futVars>>

\* line 191: redirect_stderr.__exit__ puts back the stream it saved
ExitStderr(r) ==
  /\ pc[r] = "exit_err"
  /\ sys_stderr' = old_err[r]
  /\ old_err' = [old_err EXCEPT ![r] = 0]
  /\ pc' = [pc EXCEPT ![r] = "exit_out"]
  /\ UNCHANGED <<restVars, syncVars, openVars, envVars, max_workers, sys_stdout, code, callerVars, ip,
                 elapsed, captureVars, old_out, exc, futVars>>

\* line 191: redirect_stdout.__exit__ puts back the stream it saved
ExitStdout(r) ==
  /\ pc[r] = "exit_out"
  /\ sys_stdout' = old_out[r]
  /\ old_out' = [old_out EXCEPT ![r] = 0]
  /\ pc' = [pc EXCEPT ![r] = "finalize"]
  /\ UNCHANGED <<restVars, syncVars, openVars, envVars, max_workers, sys_stderr, code, callerVars, ip,
                 elapsed, captureVars, old_err, exc, futVars>>

\* the text an error begins with: lines 219 and 223
ErrorPrefix(k) ==
  CASE k = "ImportError" -> "Import error: "
    [] k = "ValueError" -> "ValueError: "
    [] k = "SyntaxError" -> "SyntaxError: "
    [] k = "PermissionError" -> "PermissionError: "
    [] k = "NameError" -> "NameError: "
    [] k = "ExecutionTimeout" -> "ExecutionTimeout: "
    [] k = "TimeoutError" -> "TimeoutError: "

TimeoutPrefix == "Execution timeout after"

\* lines 214-235: the result dictionary of execute_sync_no_signal
SyncResult(k, out, err, ms) ==
  IF k = "None"
  THEN Result(TRUE, AppendStderr(out, err), "None", ms)
  ELSE Result(FALSE, AppendStderr(out, err), ErrorPrefix(k), ms)

\* lines 214-235: success, or except ImportError, or except Exception; an
\* exception that is not an Exception leaves the function and is stored in
\* the future.  A future that wait_for has cancelled ignores the outcome.
Finalize(r) ==
  /\ pc[r] = "finalize"
  /\ IF caller[r] # "waiting"
     THEN UNCHANGED futVars
     ELSE IF exc[r] = "None" \/ IsException(exc[r])
     THEN /\ fut' = [fut EXCEPT ![r] = <<SyncResult(exc[r], stdout_capture[r],
                                        stderr_capture[r], elapsed[r] * 1000)>>]
          /\ UNCHANGED fut_exc
     ELSE /\ fut_exc' = [fut_exc EXCEPT ![r] = exc[r]]
          /\ UNCHANGED fut
  /\ pc' = [pc EXCEPT ![r] = "done"]
  \* the locals of the call are gone when it returns
  /\ elapsed' = [elapsed EXCEPT ![r] = 0]
  /\ stdout_capture' = [stdout_capture EXCEPT ![r] = <<>>]
  /\ stderr_capture' = [stderr_capture EXCEPT ![r] = <<>>]
  /\ exc' = [exc EXCEPT ![r] = "None"]
  /\ ip' = [ip EXCEPT ![r] = 1]
  /\ UNCHANGED <<restVars, syncVars, openVars, envVars, max_workers, streamVars, code, callerVars, savedVars>>

\* lines 73-76: the future completes before the deadline fires; await returns
\* its result or raises its exception
Deliver(r) ==
  /\ pc[r] = "done"
  /\ caller[r] = "waiting"
  /\ IF fut_exc[r] = "None"
     THEN /\ ret' = [ret EXCEPT ![r] = @ \o fut[r]]
          /\ caller' = [caller EXCEPT ![r] = "returned"]
          /\ UNCHANGED escaped
     ELSE /\ escaped' = [escaped EXCEPT ![r] = fut_exc[r]]
          /\ caller' = [caller EXCEPT ![r] = "raised"]
          /\ UNCHANGED ret
  /\ waited' = [waited EXCEPT ![r] = 0]
  /\ fut' = [fut EXCEPT ![r] = <<>>]
  /\ fut_exc' = [fut_exc EXCEPT ![r] = "None"]
  /\ UNCHANGED <<restVars, syncVars, openVars, envVars, max_workers, streamVars, code, pc, ip, elapsed, captureVars,
                 savedVars, exc>>

\* lines 77-83: the result execute_async builds on asyncio.TimeoutError
TimeoutResult == Result(FALSE, <<>>, TimeoutPrefix, timeout_seconds * 1000)

\* lines 73-83: the deadline fires first.  wait_for cancels the future: a job
\* still queued is dropped, a job a thread already runs keeps running.
Timeout(r) ==
  /\ Due(r)
  /\ ret' = [ret EXCEPT ![r] = Append(@, TimeoutResult)]
  /\ caller' = [caller EXCEPT ![r] = "returned"]
  /\ pc' = [pc EXCEPT ![r] = IF @ = "queued" THEN "cancelled" ELSE @]
  /\ waited' = [waited EXCEPT ![r] = 0]
  /\ UNCHANGED <<restVars, syncVars, openVars, envVars, max_workers, streamVars, code, escaped, ip, elapsed,
                 captureVars, savedVars, exc, futVars>>

Next ==
  \/ \E r \in Req, s \in Scripts : Submit(r, s)
  \/ \E r \in Req : Start(r)
  \/ \E r \in Req : Prepare(r)
  \/ \E r \in Req : EnterStdout(r)
  \/ \E r \in Req : EnterStderr(r)
  \/ \E r \in Req : ScriptOut(r)
  \/ \E r \in Req : ScriptErr(r)
  \/ \E r \in Req : ScriptRaise(r)
  \/ \E r \in Req : ScriptEnd(r)
  \/ \E r \in Req : ExitStderr(r)
  \/ \E r \in Req : ExitStdout(r)
  \/ \E r \in Req : Finalize(r)
  \/ \E r \in Req : Deliver(r)
  \/ \E r \in Req : Timeout(r)
  \/ Tick

IdleAsync ==
  /\ max_workers = 1
  /\ sys_stdout = 0
  /\ sys_stderr = 0
  /\ code = [r \in Req |-> <<>>]
  /\ caller = [r \in Req |-> "new"]
  /\ waited = [r \in Req |-> 0]
  /\ ret = [r \in Req |-> <<>>]
  /\ escaped = [r \in Req |-> "None"]
  /\ pc = [r \in Req |-> "none"]
  /\ ip = [r \in Req |-> 1]
  /\ elapsed = [r \in Req |-> 0]
  /\ stdout_capture = [r \in Req |-> <<>>]
  /\ stderr_capture = [r \in Req |-> <<>>]
  /\ old_out = [r \in Req |-> 0]
  /\ old_err = [r \in Req |-> 0]
  /\ exc = [r \in Req |-> "None"]
  /\ fut = [r \in Req |-> <<>>]
  /\ fut_exc = [r \in Req |-> "None"]

NoResult == Result(FALSE, <<>>, "None", 0)

IdleSync ==
  /\ entry = "idle"
  /\ main_thread = TRUE
  /\ script = <<>>
  /\ guarded = FALSE
  /\ spc = "init"
  /\ sip = 1
  /\ clock = 0
  /\ alarm_at = -1
  /\ handler = "default"
  /\ old_handler = "None"
  /\ result = NoResult
  /\ sync_stdout = <<>>
  /\ sync_stderr = <<>>
  /\ pending = "None"
  /\ outcome = "running"

(***************************************************************************)
(* The file system the workspace lives in.  A path is the sequence of its  *)
(* components; <<>> is the root directory.                                 *)
(***************************************************************************)
Names == {"..", "srv", "ws", "ws2", "etc", "lnk", "f"}

\* the working directory of the process, and self.workspace_dir ("workspace")
Cwd == <<"srv">>
workspace_dir == [abs |-> FALSE, parts |-> <<"ws">>]

\* a symbolic link inside the workspace that points out of it
Symlink == [l \in {<<"srv", "ws", "lnk">>} |-> <<"etc">>]

InitDirs == {<<>>, <<"srv">>, <<"srv", "ws">>, <<"srv", "ws2">>, <<"etc">>}
InitFiles == {<<"etc", "f">>, <<"srv", "ws", "f">>, <<"srv", "ws2", "f">>}

IdleOpen ==
  /\ fs_dirs = InitDirs
  /\ fs_files = InitFiles
  /\ calls = 0
  /\ arg_outside = FALSE
  /\ arg_dotdot = FALSE
  /\ mode = <<"r">>
  /\ open_result = "none"
  /\ handle_path = <<>>
  /\ touched = {}

IdleEnv ==
  /\ executor = "harness"
  /\ allowed_arg = {}
  /\ exec_globals = {}
  /\ safe_builtins = {}
  /\ epc = "new"
  /\ tried = {}
  /\ env_error = "None"

\* the process-wide objects _prepare_environment binds by reference: an
\* imported module (line 272), the discovery singleton (line 283), the MCP
\* client singleton (line 287)
SharedObjects == {"json", "tool_discovery", "mcp_client"}

IdleLeak ==
  /\ namespaces = [r \in Req |-> {}]
  /\ lpc = [r \in Req |-> "new"]
  /\ attrs = [o \in SharedObjects |-> {}]
  /\ observed = [r \in Req |-> {}]

IdleCatalog ==
  /\ cat_calls = 0
  /\ cat_op = "none"
  /\ cat_path = [found |-> FALSE, real |-> <<>>]
  /\ cat_out = "none"
  /\ cat_read = {}
  /\ cat_value = <<>>

\* lines 57-61: a new ToolDiscovery
NewInstance ==
  /\ openai_client = FALSE
  /\ embeddings_cache = <<>>
  /\ cache_loaded = FALSE

NoArgs == [query |-> <<>>, top_k |-> 0, detail_level |-> "none", use_semantic |-> FALSE]
NoSearch == [out |-> "none", value |-> <<>>, path |-> "none", raised |-> "None",
             embedded |-> {}, read |-> {}, save_failed |-> FALSE]

IdleInstance ==
  /\ api_key = FALSE
  /\ NewInstance
  /\ cache_file = [exists |-> FALSE, bytes |-> <<>>]

IdleSearch ==
  /\ search_args = NoArgs
  /\ search_result = NoSearch

NTasks == 2
Task == 1..NTasks

IdleTask ==
  /\ task_pc = [t \in Task |-> "new"]
  /\ task_at = [t \in Task |-> 0]
  /\ task_bytes = [t \in Task |-> <<>>]
  /\ embed_calls = <<>>
  /\ added = {}

\* the entries the servers root may hold, in the order sorted() puts them
RootOrder == <<".g", "_h", "rag", "weather">>
RootNames == {RootOrder[i] : i \in DOMAIN RootOrder}

NoListCall == [by |-> "none", tree |-> [n \in RootNames |-> "absent"], value |-> <<>>]

IdleServers ==
  /\ server_tree = [n \in RootNames |-> "absent"]
  /\ list_call = NoListCall

NRuns == 3
MaxClock == 2
Run == 1..NRuns
Stamp == 0..MaxClock

\* no log file written
NoRecord == [run |-> 0, status |-> "none"]

IdleMetrics ==
  /\ wall_clock = 0
  /\ start_time = [e \in Run |-> 0]
  /\ run_pc = [e \in Run |-> "new"]
  /\ log_files = [t \in Stamp |-> NoRecord]

NoVerdict == [is_valid |-> FALSE, kind |-> "none", pattern |-> "none"]

IdleValidate ==
  /\ checked_code = <<>>
  /\ verdict = NoVerdict

NoPrintResult == [success |-> FALSE, output |-> <<>>, wrapped |-> FALSE]

IdleWrap ==
  /\ print_script = <<>>
  /\ print_result = NoPrintResult

IdleLater == IdleServers /\ IdleMetrics /\ IdleValidate /\ IdleWrap

IdleRest == IdleLeak /\ IdleCatalog /\ IdleInstance /\ IdleSearch /\ IdleTask /\ IdleLater

Init == InitAsync /\ IdleSync /\ IdleOpen /\ IdleEnv /\ IdleRest

Spec == Init /\ [][Next]_vars

(***************************************************************************)
(* What a script writes when it runs alone                                 *)
(***************************************************************************)
\* the operations of s that run: those before the first one that raises
RECURSIVE Executed(_)
Executed(s) ==
  IF s = <<>> \/ Raises(Head(s)) # "None" THEN <<>>
  ELSE <<Head(s)>> \o Executed(Tail(s))

RECURSIVE TextOf(_, _, _)
TextOf(s, op, ch) ==
  IF s = <<>> THEN <<>>
  ELSE (IF Head(s) = op THEN <<ch>> ELSE <<>>) \o TextOf(Tail(s), op, ch)

OwnStdout(r) == TextOf(Executed(code[r]), "out", Char[r])
OwnStderr(r) == TextOf(Executed(code[r]), "err", ErrChar[r])

IsPrefix(p, q) == Len(p) <= Len(q) /\ SubSeq(q, 1, Len(p)) = p

TimedOut(res) == res.error = TimeoutPrefix
Returned(r) == caller[r] = "returned"

(***************************************************************************)
(* Claims on execute_async                                                 *)
(***************************************************************************)
\* C1: every result that is not a timeout carries exactly the text its own
\* script wrote, in the order it wrote it, and no text of another script.
C1_OutputIsolated ==
  \A r \in Req :
    (Returned(r) /\ ~TimedOut(ret[r][1])) =>
      ret[r][1].output = AppendStderr(OwnStdout(r), OwnStderr(r))

\* C3: the result execute_async reports at the deadline carries the text the
\* script had written to its standard output by then.
C3_PartialOutputKept ==
  [][\A r \in Req :
       (caller[r] = "waiting" /\ Returned(r)' /\ TimedOut(ret[r][1])') =>
         IsPrefix(stdout_capture[r], ret[r][1].output')]_vars

\* C4: a request whose caller is no longer waiting has received exactly one
\* result, in exactly one of Succeeded, Failed, TimedOut, after having gone
\* through Preparing and Running.
C4_OneTerminalResult ==
  \A r \in Req :
    caller[r] \notin {"new", "waiting"} =>
      /\ Returned(r)
      /\ Len(ret[r]) = 1
      /\ pc[r] \notin {"queued", "cancelled", "preparing"}

\* C5: no failure of a script leaves execute_async as an exception; a script
\* that raises, exits or does not compile yields a failed result with an error.
C5_NothingEscapes ==
  \A r \in Req :
    /\ caller[r] # "raised"
    /\ escaped[r] = "None"
    /\ (Returned(r) /\ Executed(code[r]) # code[r]) =>
         (ret[r][1].success = FALSE /\ ret[r][1].error # "None")

\* C22: whatever the terminal state (Succeeded, Failed, TimedOut), the output
\* of the result ends with the "[STDERR]" marker followed by the standard
\* error text when the script wrote any, and holds no marker when it wrote none.
C22_StderrAppended ==
  [][\A r \in Req :
       (caller[r] = "waiting" /\ Returned(r)') =>
         LET written == IF TimedOut(ret[r][1])' THEN stderr_capture[r] ELSE OwnStderr(r)
             out == ret[r][1].output'
         IN IF written # <<>>
              THEN \E i \in DOMAIN out : out[i] = STDERR /\ SubSeq(out, i + 1, Len(out)) = written
              ELSE \A i \in DOMAIN out : out[i] # STDERR]_vars

\* C28: once no execution is in progress any more, the process-wide
\* sys.stdout and sys.stderr are the original streams again.
C28_StreamsRestored ==
  (\A r \in Req : pc[r] \in {"none", "done", "cancelled"}) =>
    (sys_stdout = 0 /\ sys_stderr = 0)

\* the event loop and the pool threads keep running: whatever can happen
\* next does happen
SpecFair == Spec /\ WF_vars(Next)

\* the script would finish within the budget when run alone (a script that
\* leaves by sys.exit() finishes too, but hands no result back in any case)
FitsBudget(s) == Sleeps(s) < timeout_seconds /\ \A i \in DOMAIN s : s[i] # "exit"

\* C29: runaway scripts do not starve later requests: every request whose
\* script fits the budget when run alone eventually returns Succeeded or
\* Failed, and never TimedOut.
C29_NoStarvation ==
  \A r \in Req :
    [](caller[r] = "waiting" /\ FitsBudget(code[r])
         => <>(Returned(r) /\ ~TimedOut(ret[r][1])))

(***************************************************************************)
(* execute_sync (harness.py 85-159) and CodeExecutor.execute               *)
(* (code_executor.py 39-112): one call, timed by SIGALRM                   *)
(***************************************************************************)
\* a script that ends exactly when the budget does
Borderline == <<"out">> \o Nap(timeout_seconds)

\* a script that raises just when the budget ends
LateRaise == <<"out">> \o Nap(timeout_seconds) \o <<"raise">>

SyncScripts == Scripts \cup {Borderline, LateRaise}

InitSync ==
  /\ IdleAsync
  /\ IdleOpen
  /\ IdleEnv
  /\ IdleRest
  /\ entry \in {"execute_sync", "execute"}
  /\ main_thread \in BOOLEAN
  /\ script \in SyncScripts
  /\ guarded \in BOOLEAN
  /\ spc = "init"
  /\ sip = 1
  /\ clock = 0
  /\ alarm_at = -1
  /\ handler = "default"
  /\ old_handler = "None"
  /\ result = NoResult
  /\ sync_stdout = <<>>
  /\ sync_stderr = <<>>
  /\ pending = "None"
  /\ outcome = "running"

\* the order of the steps of the two entry points
Steps(e) ==
  IF e = "execute_sync"
  THEN <<"init", "sig", "arm", "prep", "exec", "succ", "out", "finally", "time", "stderr">>
  ELSE <<"init", "prep", "sig", "arm", "exec", "cancel", "succ", "out", "finally", "time",
         "stderr">>

After(e, p) ==
  LET i == CHOOSE j \in DOMAIN Steps(e) : Steps(e)[j] = p IN Steps(e)[i + 1]

At(p) == entry # "idle" /\ outcome = "running" /\ spc = p

\* the exception the installed handler raises: _timeout_handler (harness.py 237-239),
\* timeout_handler (code_executor.py 19-21)
HandlerRaises == IF handler = "harness" THEN "ExecutionTimeout" ELSE "TimeoutError"

AlarmDue == alarm_at >= 0 /\ clock >= alarm_at

\* harness.py 94-106, code_executor.py 53: start_time, result, the two StringIO
Begin ==
  /\ At("init")
  /\ result' = NoResult
  /\ sync_stdout' = <<>>
  /\ sync_stderr' = <<>>
  /\ clock' = 0
  /\ spc' = After(entry, "init")
  /\ UNCHANGED <<restVars, asyncVars, openVars, envVars, entry, main_thread, script, guarded, sip, alarm_at, handler,
                 old_handler, pending, outcome>>

\* harness.py 108-115: signal.signal raises ValueError off the main thread,
\* which is passed over: old_handler stays None
Sync_Signal ==
  /\ At("sig") /\ entry = "execute_sync"
  /\ IF main_thread
     THEN old_handler' = handler /\ handler' = "harness"
     ELSE UNCHANGED <<old_handler, handler>>
  /\ spc' = After(entry, "sig")
  /\ UNCHANGED <<restVars, asyncVars, openVars, envVars, entry, main_thread, script, guarded, sip, clock, alarm_at,
                 result, sync_stdout, sync_stderr, pending, outcome>>

\* harness.py 119-120
Sync_Arm ==
  /\ At("arm") /\ entry = "execute_sync"
  /\ alarm_at' = IF old_handler # "None" THEN clock + timeout_seconds ELSE alarm_at
  /\ spc' = After(entry, "arm")
  /\ UNCHANGED <<restVars, asyncVars, openVars, envVars, entry, main_thread, script, guarded, sip, clock, handler,
                 old_handler, result, sync_stdout, sync_stderr, pending, outcome>>

\* code_executor.py 71-72: inside the try; off the main thread signal.signal
\* raises ValueError, which except Exception turns into the result
Exec_Signal ==
  /\ At("sig") /\ entry = "execute"
  /\ IF main_thread
     THEN /\ handler' = "legacy"
          /\ spc' = After(entry, "sig")
          /\ UNCHANGED pending
     ELSE /\ pending' = "ValueError"
          /\ spc' = "except"
          /\ UNCHANGED handler
  /\ UNCHANGED <<restVars, asyncVars, openVars, envVars, entry, main_thread, script, guarded, sip, clock, alarm_at,
                 old_handler, result, sync_stdout, sync_stderr, outcome>>

\* code_executor.py 73
Exec_Arm ==
  /\ At("arm") /\ entry = "execute"
  /\ alarm_at' = clock + timeout_seconds
  /\ spc' = After(entry, "arm")
  /\ UNCHANGED <<restVars, asyncVars, openVars, envVars, entry, main_thread, script, guarded, sip, clock, handler,
                 old_handler, result, sync_stdout, sync_stderr, pending, outcome>>

\* harness.py 123, code_executor.py 56: _prepare_environment
PrepareSync ==
  /\ At("prep")
  /\ spc' = After(entry, "prep")
  /\ sip' = 1
  /\ UNCHANGED <<restVars, asyncVars, openVars, envVars, entry, main_thread, script, guarded, clock, alarm_at, handler,
                 old_handler, result, sync_stdout, sync_stderr, pending, outcome>>

\* harness.py 127, code_executor.py 77: exec(code, exec_globals) -- a print()
RunOut ==
  /\ At("exec") /\ sip <= Len(script) /\ script[sip] = "out"
  /\ sync_stdout' = Append(sync_stdout, "A")
  /\ sip' = sip + 1
  /\ UNCHANGED <<restVars, asyncVars, openVars, envVars, entry, main_thread, script, guarded, spc, clock, alarm_at,
                 handler, old_handler, result, sync_stderr, pending, outcome>>

\* a write to stderr
RunErr ==
  /\ At("exec") /\ sip <= Len(script) /\ script[sip] = "err"
  /\ sync_stderr' = Append(sync_stderr, "a")
  /\ sip' = sip + 1
  /\ UNCHANGED <<restVars, asyncVars, openVars, envVars, entry, main_thread, script, guarded, spc, clock, alarm_at,
                 handler, old_handler, result, sync_stdout, pending, outcome>>

\* the script's own  except Exception: pass  catches k raised in its body
Swallowed(k) == guarded /\ IsException(k) /\ k # "SyntaxError"

\* the script raises: its own handler swallows the exception, or exec raises it
RunRaise ==
  /\ At("exec") /\ sip <= Len(script) /\ Raises(script[sip]) # "None"
  /\ IF Swallowed(Raises(script[sip]))
     THEN sip' = Len(script) + 1 /\ UNCHANGED <<pending, spc>>
     ELSE pending' = Raises(script[sip]) /\ spc' = "except" /\ UNCHANGED sip
  /\ UNCHANGED <<restVars, asyncVars, openVars, envVars, entry, main_thread, script, guarded, clock, alarm_at, handler,
                 old_handler, result, sync_stdout, sync_stderr, outcome>>

\* exec returns
RunEnd ==
  /\ At("exec") /\ sip > Len(script)
  /\ spc' = After(entry, "exec")
  /\ UNCHANGED <<restVars, asyncVars, openVars, envVars, entry, main_thread, script, guarded, sip, clock, alarm_at,
                 handler, old_handler, result, sync_stdout, sync_stderr, pending, outcome>>

\* a second passes inside time.sleep(1); a due alarm is delivered first
TickSync ==
  /\ At("exec") /\ sip <= Len(script) /\ script[sip] = "sleep"
  /\ ~AlarmDue
  /\ clock < MaxElapsed
  /\ clock' = clock + 1
  /\ sip' = sip + 1
  /\ UNCHANGED <<restVars, asyncVars, openVars, envVars, entry, main_thread, script, guarded, spc, alarm_at, handler,
                 old_handler, result, sync_stdout, sync_stderr, pending, outcome>>

\* code_executor.py 80-81: cancel the alarm before the result is marked
Exec_Cancel ==
  /\ At("cancel")
  /\ alarm_at' = -1
  /\ spc' = After(entry, "cancel")
  /\ UNCHANGED <<restVars, asyncVars, openVars, envVars, entry, main_thread, script, guarded, sip, clock, handler,
                 old_handler, result, sync_stdout, sync_stderr, pending, outcome>>

\* harness.py 130, code_executor.py 83: result["success"] = True
Success ==
  /\ At("succ")
  /\ result' = [result EXCEPT !.success = TRUE]
  /\ spc' = After(entry, "succ")
  /\ UNCHANGED <<restVars, asyncVars, openVars, envVars, entry, main_thread, script, guarded, sip, clock, alarm_at,
                 handler, old_handler, sync_stdout, sync_stderr, pending, outcome>>

\* harness.py 131, code_executor.py 84: result["output"] = stdout_capture.getvalue()
Output ==
  /\ At("out")
  /\ result' = [result EXCEPT !.output = sync_stdout]
  /\ spc' = After(entry, "out")
  /\ UNCHANGED <<restVars, asyncVars, openVars, envVars, entry, main_thread, script, guarded, sip, clock, alarm_at,
                 handler, old_handler, sync_stdout, sync_stderr, pending, outcome>>

\* SIGALRM is delivered between two instructions of the main thread and the
\* handler raises there: in the script (whose own handler may catch it), in
\* the try block, in an except clause, or in the finally block
AlarmFire ==
  /\ entry # "idle" /\ outcome = "running"
  /\ AlarmDue
  /\ alarm_at' = -1
  /\ IF spc = "exec" /\ sip <= Len(script) /\ Swallowed(HandlerRaises)
     THEN /\ sip' = Len(script) + 1
          /\ UNCHANGED <<spc, pending, outcome>>
     ELSE IF spc \in {"prep", "exec", "cancel", "succ", "out"}
     THEN /\ pending' = HandlerRaises
          /\ spc' = "except"
          /\ UNCHANGED <<sip, outcome>>
     ELSE IF spc \in {"except", "h_out"}
     THEN /\ pending' = HandlerRaises
          /\ spc' = "finally"
          /\ UNCHANGED <<sip, outcome>>
     ELSE /\ outcome' = HandlerRaises
          /\ UNCHANGED <<sip, spc, pending>>
  /\ UNCHANGED <<restVars, asyncVars, openVars, envVars, entry, main_thread, script, guarded, clock, handler,
                 old_handler, result, sync_stdout, sync_stderr>>

\* the timeout exception the entry point has an except clause for
OwnTimeout == IF entry = "execute_sync" THEN "ExecutionTimeout" ELSE "TimeoutError"

\* harness.py 133-143, code_executor.py 86-95: the except clause that matches
\* sets result["error"]; no clause matches an exception that is not an Exception
Except ==
  /\ At("except")
  /\ IF pending = OwnTimeout
     THEN result' = [result EXCEPT !.error = TimeoutPrefix] /\ spc' = "h_out"
     ELSE IF IsException(pending)
     THEN result' = [result EXCEPT !.error = ErrorPrefix(pending)] /\ spc' = "h_out"
     ELSE UNCHANGED result /\ spc' = "finally"
  /\ UNCHANGED <<restVars, asyncVars, openVars, envVars, entry, main_thread, script, guarded, sip, clock, alarm_at,
                 handler, old_handler, sync_stdout, sync_stderr, pending, outcome>>

\* harness.py 135/139/143, code_executor.py 88/92/96: result["output"] = ... in the clause
HandlerOutput ==
  /\ At("h_out")
  /\ result' = [result EXCEPT !.output = sync_stdout]
  /\ pending' = "None"
  /\ spc' = "finally"
  /\ UNCHANGED <<restVars, asyncVars, openVars, envVars, entry, main_thread, script, guarded, sip, clock, alarm_at,
                 handler, old_handler, sync_stdout, sync_stderr, outcome>>

\* harness.py 145-149: cancel the alarm and restore the handler, if one was installed
Sync_Finally ==
  /\ At("finally") /\ entry = "execute_sync"
  /\ IF old_handler # "None"
     THEN alarm_at' = -1 /\ handler' = old_handler
     ELSE UNCHANGED <<alarm_at, handler>>
  /\ spc' = "time"
  /\ UNCHANGED <<restVars, asyncVars, openVars, envVars, entry, main_thread, script, guarded, sip, clock, old_handler,
                 result, sync_stdout, sync_stderr, pending, outcome>>

\* code_executor.py 98-101: cancel the alarm; the handler stays installed
Exec_Finally ==
  /\ At("finally") /\ entry = "execute"
  /\ alarm_at' = -1
  /\ spc' = "time"
  /\ UNCHANGED <<restVars, asyncVars, openVars, envVars, entry, main_thread, script, guarded, sip, clock, handler,
                 old_handler, result, sync_stdout, sync_stderr, pending, outcome>>

\* harness.py 151-152, code_executor.py 103-105: the elapsed time; then an
\* exception still in flight leaves the entry point
RecordTime ==
  /\ At("time")
  /\ result' = [result EXCEPT !.execution_time_ms = clock * 1000]
  /\ IF pending # "None"
     THEN outcome' = pending /\ UNCHANGED spc
     ELSE spc' = "stderr" /\ UNCHANGED outcome
  /\ UNCHANGED <<restVars, asyncVars, openVars, envVars, entry, main_thread, script, guarded, sip, clock, alarm_at,
                 handler, old_handler, sync_stdout, sync_stderr, pending>>

\* harness.py 154-159, code_executor.py 107-112: append stderr, return result
Return ==
  /\ At("stderr")
  /\ result' = [result EXCEPT !.output = AppendStderr(@, sync_stderr)]
  /\ outcome' = "returned"
  /\ UNCHANGED <<restVars, asyncVars, openVars, envVars, entry, main_thread, script, guarded, spc, sip, clock, alarm_at,
                 handler, old_handler, sync_stdout, sync_stderr, pending>>

NextSync ==
  \/ Begin
  \/ Sync_Signal
  \/ Sync_Arm
  \/ Exec_Signal
  \/ Exec_Arm
  \/ PrepareSync
  \/ RunOut
  \/ RunErr
  \/ RunRaise
  \/ RunEnd
  \/ TickSync
  \/ Exec_Cancel
  \/ Success
  \/ Output
  \/ AlarmFire
  \/ Except
  \/ HandlerOutput
  \/ Sync_Finally
  \/ Exec_Finally
  \/ RecordTime
  \/ Return

SpecSync == InitSync /\ [][NextSync]_vars

(***************************************************************************)
(* Claims on the timeout and on the result shape                           *)
(***************************************************************************)
\* C2: an entry point given a script that runs longer than the budget returns
\* a failed result whose error begins with "Execution timeout after" and
\* whose elapsed time is the budget; it neither returns anything else nor
\* keeps its caller past the deadline.
C2_TimeoutReported ==
  (entry # "idle" /\ Sleeps(script) > timeout_seconds) =>
    /\ clock <= timeout_seconds
    /\ outcome \in {"running", "returned"}
    /\ outcome = "returned" =>
         /\ result.success = FALSE
         /\ result.error = TimeoutPrefix
         /\ result.execution_time_ms = timeout_seconds * 1000

\* C6: a returned result has success = true and no error, or success = false
\* and an error.
C6_SuccessXorError ==
  /\ outcome = "returned" => (result.success <=> result.error = "None")
  /\ \A r \in Req : \A i \in DOMAIN ret[r] :
       ret[r][i].success <=> ret[r][i].error = "None"

(***************************************************************************)
(* _safe_open (harness.py 338-368)                                         *)
(***************************************************************************)
MaxPathLen == 3
MaxCalls == 1

Parent(p) == IF p = <<>> THEN <<>> ELSE SubSeq(p, 1, Len(p) - 1)

\* what the operating system makes of an absolute path: ".." steps up (the
\* root is its own parent), a symbolic link is followed
RECURSIVE Walk(_, _)
Walk(done, rest) ==
  IF rest = <<>> THEN done
  ELSE IF Head(rest) = ".." THEN Walk(Parent(done), Tail(rest))
  ELSE LET new == Append(done, Head(rest))
       IN IF new \in DOMAIN Symlink THEN Walk(Symlink[new], Tail(rest))
          ELSE Walk(new, Tail(rest))

RealPath(p) == Walk(<<>>, p)

\* a relative path is taken from the working directory
Absolute(fn) == IF fn.abs THEN fn.parts ELSE Cwd \o fn.parts

\* line 352 / 353: Path(filename).resolve()
Resolve(fn) == RealPath(Absolute(fn))

\* "ws" is how the text "ws2" begins
NameStartsWith(b, a) == a = b \/ (a = "ws" /\ b = "ws2")

\* str(file_path).startswith(str(workspace_path))
StartsWith(p, w) ==
  /\ Len(p) >= Len(w)
  /\ \A i \in 1..(Len(w) - 1) : p[i] = w[i]
  /\ w # <<>> => NameStartsWith(p[Len(w)], w[Len(w)])

\* lines 356-358: file_path.relative_to(workspace_path) does not raise ValueError
RelativeTo(p, w) == IsPrefix(w, p)

\* line 365: 'w' in mode or 'a' in mode or 'x' in mode
In(c, m) == \E i \in DOMAIN m : m[i] = c
WriteMode(m) == In("w", m) \/ In("a", m) \/ In("x", m)

Modes == {<<"r">>, <<"w", "b">>, <<"a">>, <<"x">>}

Prefixes(p) == {SubSeq(p, 1, n) : n \in 0..Len(p)}

\* line 366: file_path.parent.mkdir(parents=True, exist_ok=True) on the
\* directories dirs and files files: the directories afterwards, or the
\* failure when a component is a regular file
MkdirFails(d, files) == \E q \in Prefixes(RealPath(d)) : q \in files
Mkdir(d, dirs) == dirs \cup Prefixes(RealPath(d))

\* line 368: the builtin open(file_path, mode): "handle" or the exception
OpenOutcome(p, m, dirs, files) ==
  LET real == RealPath(p) IN
  IF real \in dirs THEN "IsADirectoryError"
  ELSE IF real \in files THEN (IF In("x", m) THEN "FileExistsError" ELSE "handle")
  ELSE IF WriteMode(m) /\ Parent(real) \in dirs THEN "handle"
  ELSE "FileNotFoundError"

\* the workspace root as the operating system sees it, and what lies in it
WorkspaceRoot == <<"srv", "ws">>
InsideWorkspace(q) == Len(q) >= Len(WorkspaceRoot) /\ SubSeq(q, 1, Len(WorkspaceRoot)) = WorkspaceRoot

PathArgs == [abs : BOOLEAN, parts : UNION {[1..n -> Names] : n \in 0..MaxPathLen}]

\* lines 352-368
SafeOpen(fn, m) ==
  /\ calls < MaxCalls
  /\ calls' = calls + 1
  /\ arg_outside' = ~InsideWorkspace(RealPath(Absolute(fn)))
  /\ arg_dotdot' = In("..", fn.parts)
  /\ mode' = m
  /\ LET file_path == Resolve(fn)
         workspace_path == Resolve(workspace_dir)
     IN IF ~RelativeTo(file_path, workspace_path)
        THEN /\ open_result' = "PermissionError"
             /\ touched' = {}
             /\ UNCHANGED <<fs_dirs, fs_files, handle_path>>
        ELSE IF WriteMode(m) /\ MkdirFails(Parent(file_path), fs_files)
        THEN /\ open_result' = "FileExistsError"
             /\ touched' = {RealPath(Parent(file_path))}
             /\ UNCHANGED <<fs_dirs, fs_files, handle_path>>
        ELSE LET dirs == IF WriteMode(m) THEN Mkdir(Parent(file_path), fs_dirs) ELSE fs_dirs
                 res == OpenOutcome(file_path, m, dirs, fs_files)
             IN /\ fs_dirs' = dirs
                /\ open_result' = res
                /\ touched' = (dirs \ fs_dirs) \cup {RealPath(file_path)}
                /\ IF res = "handle"
                   THEN /\ handle_path' = RealPath(file_path)
                        /\ fs_files' = fs_files \cup {RealPath(file_path)}
                   ELSE UNCHANGED <<fs_files, handle_path>>
  /\ UNCHANGED <<restVars, asyncVars, syncVars, envVars>>

InitOpen == IdleAsync /\ IdleSync /\ IdleOpen /\ IdleEnv /\ IdleRest

NextOpen == \E fn \in PathArgs, m \in Modes : SafeOpen(fn, m)

SpecOpen == InitOpen /\ [][NextOpen]_vars

\* C7: a call whose canonical path is outside the workspace raises
\* PermissionError and touches nothing; every path a call makes the OS
\* create or open, and every file a handle is open on, is inside the workspace.
C7_OpenConfined ==
  /\ \A q \in touched : InsideWorkspace(q)
  /\ (fs_dirs \ InitDirs) \cup (fs_files \ InitFiles) \subseteq {q \in fs_dirs \cup fs_files : InsideWorkspace(q)}
  /\ open_result = "handle" => InsideWorkspace(handle_path)
  /\ arg_outside => (open_result = "PermissionError" /\ touched = {})
  /\ open_result = "PermissionError" => arg_outside

\* a traversal out of the workspace was attempted in a write mode and refused
C7_Witness ==
  /\ calls > 0
  /\ arg_outside
  /\ arg_dotdot
  /\ WriteMode(mode)
  /\ open_result = "PermissionError"

(***************************************************************************)
(* The namespace of a script: _prepare_environment and _get_safe_builtins  *)
(* (harness.py 241-336, code_executor.py 114-254)                          *)
(***************************************************************************)
\* the modules of the model; "nosuch" is not installed on the host
Modules == {"json", "os", "sys", "pathlib", "pandas", "subprocess", "builtins", "nosuch"}
Installed == Modules \ {"nosuch"}

\* harness.py 52-56 (the default list) and config.py 39-44 (ALLOWED_IMPORTS),
\* restricted to the modules of the model
DefaultAllowed == {"json", "pandas", "pathlib", "os", "sys"}
ALLOWED_IMPORTS == {"json", "pandas", "os", "sys", "pathlib"}

\* harness.py 52: self.allowed_modules = allowed_modules or [...]
AllowedModules(ex, arg) ==
  IF ex = "legacy" THEN ALLOWED_IMPORTS
  ELSE IF arg = {} THEN DefaultAllowed ELSE arg

\* harness.py 256-272, code_executor.py 129-177: the names one module is bound to
Bindings(m) ==
  CASE m = "pandas" -> {"pd", "pandas"}
    [] m = "pathlib" -> {"Path", "pathlib"}
    [] OTHER -> {m}

\* harness.py 248-289
HarnessGlobals(allowed) ==
  {"__builtins__", "__name__", "tool_discovery", "mcp_client"}
    \cup UNION {Bindings(m) : m \in allowed \cap Installed}

\* code_executor.py 122-206
LegacyGlobals ==
  {"__builtins__", "mcp_client", "mcp_client_wrapper", "tool_discovery"}
    \cup UNION {Bindings(m) : m \in ALLOWED_IMPORTS \cap Installed}

\* harness.py 297-334: the keys of safe_builtins
HarnessBuiltins ==
  {"str", "int", "float", "bool", "list", "dict", "set", "tuple", "bytes", "bytearray",
   "print", "len", "range", "abs", "min", "max", "sum", "sorted", "reversed",
   "enumerate", "zip", "map", "filter", "all", "any", "round", "pow", "divmod",
   "isinstance", "issubclass", "hasattr", "getattr", "setattr", "delattr", "type", "id",
   "callable", "dir", "vars", "open", "Exception", "ValueError", "TypeError", "KeyError",
   "IndexError", "AttributeError", "RuntimeError", "ImportError", "OSError",
   "format", "repr", "ascii", "ord", "chr", "hex", "oct", "bin", "hash", "slice",
   "complex", "__import__"}

\* code_executor.py 216-252
LegacyBuiltins ==
  {"print", "len", "range", "str", "int", "float", "bool", "list", "dict", "set", "tuple",
   "abs", "min", "max", "sum", "sorted", "enumerate", "zip", "map", "filter", "round",
   "isinstance", "hasattr", "getattr", "setattr", "type", "open", "ValueError",
   "TypeError", "KeyError", "IndexError", "Exception", "__import__", "__name__", "__doc__"}

\* the object a builtin name is bound to: harness.py 318 binds open to
\* self._safe_open, code_executor.py 243 to the builtin open; both bind
\* __import__ to the builtin __import__ (harness.py 333, code_executor.py 249)
BoundObject(ex, name) ==
  CASE name = "open" -> (IF ex = "harness" THEN "_safe_open" ELSE "builtins.open")
    [] name = "__import__" -> "builtins.__import__"
    [] OTHER -> name

\* the import primitive, given the allow-list: the builtin __import__ takes
\* any module installed on the host
ImportAllows(ex, allowed, m) == m \in Installed

\* the modules a script can get hold of: the bound ones, and through the
\* bound import primitive every module the primitive lets through
Obtainable(ex, allowed, globals, builtins) ==
  {m \in Modules : m \in globals}
    \cup (IF "__import__" \in builtins
          THEN {m \in Modules : ImportAllows(ex, allowed, m)} ELSE {})

\* modules that open files without the gate (os.open, pathlib.Path.open,
\* builtins.open, a child process), and the module that holds eval, exec and
\* compile and is the unrestricted builtins namespace
FileModules == {"os", "pathlib", "subprocess", "builtins"}
CodeModules == {"builtins"}

InitEnv ==
  /\ IdleAsync /\ IdleSync /\ IdleOpen /\ IdleRest
  /\ executor \in {"harness", "legacy"}
  /\ allowed_arg \in SUBSET (Modules \ {"builtins"})
  /\ executor = "legacy" => allowed_arg = {}
  /\ exec_globals = {}
  /\ safe_builtins = {}
  /\ epc = "new"
  /\ tried = {}
  /\ env_error = "None"

\* harness.py 188, code_executor.py 56: exec_globals = self._prepare_environment()
BuildEnv ==
  /\ epc = "new"
  /\ exec_globals' = IF executor = "harness"
                     THEN HarnessGlobals(AllowedModules(executor, allowed_arg))
                     ELSE LegacyGlobals
  /\ safe_builtins' = IF executor = "harness" THEN HarnessBuiltins ELSE LegacyBuiltins
  /\ epc' = "built"
  /\ UNCHANGED <<restVars, asyncVars, syncVars, openVars, executor, allowed_arg, tried, env_error>>

\* the script runs  import m : the statement calls __builtins__["__import__"];
\* the module is bound, or ImportError ends the run (harness.py 218-220,
\* code_executor.py 90-92)
ScriptImport(m) ==
  /\ epc = "built"
  /\ m \notin tried
  /\ "__import__" \in safe_builtins
  /\ tried' = tried \cup {m}
  /\ IF ImportAllows(executor, AllowedModules(executor, allowed_arg), m)
     THEN /\ exec_globals' = exec_globals \cup {m}
          /\ UNCHANGED <<epc, env_error>>
     ELSE /\ env_error' = ErrorPrefix("ImportError")
          /\ epc' = "done"
          /\ UNCHANGED exec_globals
  /\ UNCHANGED <<restVars, asyncVars, syncVars, openVars, executor, allowed_arg, safe_builtins>>

\* the script uses the name m without importing it: a lookup in the globals,
\* NameError (harness.py 222-224) when it is not bound
ScriptUse(m) ==
  /\ epc = "built"
  /\ m \notin tried
  /\ tried' = tried \cup {m}
  /\ IF m \in exec_globals
     THEN UNCHANGED <<epc, env_error>>
     ELSE env_error' = ErrorPrefix("NameError") /\ epc' = "done"
  /\ UNCHANGED <<restVars, asyncVars, syncVars, openVars, executor, allowed_arg, exec_globals,
                 safe_builtins>>

\* the script ends: harness.py 214-216
ScriptFinish ==
  /\ epc = "built"
  /\ epc' = "done"
  /\ UNCHANGED <<restVars, asyncVars, syncVars, openVars, executor, allowed_arg, exec_globals,
                 safe_builtins, tried, env_error>>

NextEnv ==
  \/ BuildEnv
  \/ \E m \in Modules : ScriptImport(m)
  \/ \E m \in Modules : ScriptUse(m)
  \/ ScriptFinish

SpecEnv == InitEnv /\ [][NextEnv]_vars

Allowed == AllowedModules(executor, allowed_arg)
Reach == Obtainable(executor, Allowed, exec_globals, safe_builtins)

\* C8: the gated open is the only file I/O primitive a script can reach: the
\* bound open is the gate, and no module that opens files is bound or can be
\* obtained through the import primitive.
C8_OnlyGatedFileIO ==
  epc # "new" =>
    /\ "open" \in safe_builtins => BoundObject(executor, "open") = "_safe_open"
    /\ Reach \cap FileModules = {}
    /\ "Path" \notin exec_globals

\* C9: the namespace gives the script neither eval, exec or compile nor the
\* unrestricted builtins namespace, bound directly or obtainable through a
\* bound callable or module.
C9_NoDynamicCode ==
  epc # "new" =>
    /\ safe_builtins \cap {"eval", "exec", "compile"} = {}
    /\ Reach \cap CodeModules = {}

\* C10: once a script has tried to import or use a module outside the
\* allow-list, the module is not available to it and the run ends Failed
\* with an error beginning "Import error: ".
C10_ImportRestricted ==
  \A m \in tried \ Allowed :
    /\ m \notin exec_globals
    /\ epc = "done" => env_error = ErrorPrefix("ImportError")

(***************************************************************************)
(* Successive and concurrent executions in one process: what one script    *)
(* leaves behind for another (harness.py 241-289)                          *)
(***************************************************************************)
\* lines 248-289: a new dictionary, with the process-wide objects bound in it
FreshGlobals == {<<o, "shared">> : o \in SharedObjects} \cup {<<"__name__", "__main__">>}

InitLeak == IdleAsync /\ IdleSync /\ IdleOpen /\ IdleEnv /\ IdleRest

\* exec_globals = self._prepare_environment(), then exec(code, exec_globals)
PrepareEnvironment(r) ==
  /\ lpc[r] = "new"
  /\ namespaces' = [namespaces EXCEPT ![r] = FreshGlobals]
  /\ lpc' = [lpc EXCEPT ![r] = "running"]
  /\ UNCHANGED <<asyncVars, syncVars, openVars, envVars, catalogVars, instanceVars, searchVars, taskVars, laterVars, attrs, observed>>

\* the script binds a global name: x = ...
ScriptBind(r) ==
  /\ lpc[r] = "running"
  /\ namespaces' = [namespaces EXCEPT ![r] = @ \cup {<<"x", r>>}]
  /\ UNCHANGED <<asyncVars, syncVars, openVars, envVars, catalogVars, instanceVars, searchVars, taskVars, laterVars, lpc, attrs, observed>>

\* the script sets an attribute on an object bound in its namespace:
\* json.leak = ..., tool_discovery.servers_path = ...
ScriptSetAttr(r, o) ==
  /\ lpc[r] = "running"
  /\ <<o, "shared">> \in namespaces[r]
  /\ attrs' = [attrs EXCEPT ![o] = @ \cup {r}]
  /\ UNCHANGED <<asyncVars, syncVars, openVars, envVars, catalogVars, instanceVars, searchVars, taskVars, laterVars, namespaces, lpc, observed>>

\* the script reads the global x, if bound
ScriptReadName(r) ==
  /\ lpc[r] = "running"
  /\ observed' = [observed EXCEPT ![r] = @ \cup {v \in Req : <<"x", v>> \in namespaces[r]}]
  /\ UNCHANGED <<asyncVars, syncVars, openVars, envVars, catalogVars, instanceVars, searchVars, taskVars, laterVars, namespaces, lpc, attrs>>

\* the script reads the attributes of an object bound in its namespace
ScriptGetAttr(r, o) ==
  /\ lpc[r] = "running"
  /\ <<o, "shared">> \in namespaces[r]
  /\ observed' = [observed EXCEPT ![r] = @ \cup attrs[o]]
  /\ UNCHANGED <<asyncVars, syncVars, openVars, envVars, catalogVars, instanceVars, searchVars, taskVars, laterVars, namespaces, lpc, attrs>>

\* exec returns; the dictionary is dropped with the call
ScriptReturn(r) ==
  /\ lpc[r] = "running"
  /\ lpc' = [lpc EXCEPT ![r] = "done"]
  /\ namespaces' = [namespaces EXCEPT ![r] = {}]
  /\ UNCHANGED <<asyncVars, syncVars, openVars, envVars, catalogVars, instanceVars, searchVars, taskVars, laterVars, attrs, observed>>

NextLeak ==
  \/ \E r \in Req : PrepareEnvironment(r)
  \/ \E r \in Req : ScriptBind(r)
  \/ \E r \in Req, o \in SharedObjects : ScriptSetAttr(r, o)
  \/ \E r \in Req : ScriptReadName(r)
  \/ \E r \in Req, o \in SharedObjects : ScriptGetAttr(r, o)
  \/ \E r \in Req : ScriptReturn(r)

SpecLeak == InitLeak /\ [][NextLeak]_vars

\* C11: a script observes nothing another execution did: neither a name
\* another script bound nor an attribute another script set on an object
\* reachable from the namespace.
C11_NoStateLeak == \A r \in Req : observed[r] \subseteq {r}

(***************************************************************************)
(* The tool catalog: ToolDiscovery over its directory tree                 *)
(* (servers/discovery.py 140-344)                                          *)
(***************************************************************************)
\* the names of the tree, in the order sorted() puts them
NameOrder == <<"..", "__init__.py", "_h", "cat", "cat2", "d.py", "nomark", "notes.txt",
               "rag", "s.py", "t.py", "top.py", "u.py", "v.py", "weather", "x.py">>
CatNames == {NameOrder[i] : i \in DOMAIN NameOrder}

\* self.servers_path: the catalog root, an absolute path
servers_path == <<"cat">>

\* the tree: two servers, a directory without the package marker, a reserved
\* directory, a file in the root, a directory named like a unit, a sibling of
\* the root whose name begins with the root's, and a file outside the root
CatalogDirs == {<<>>, <<"cat">>, <<"cat", "weather">>, <<"cat", "rag">>, <<"cat", "nomark">>,
                <<"cat", "_h">>, <<"cat", "weather", "d.py">>, <<"cat2">>}
CatalogFiles == {<<"cat", "weather", "__init__.py">>, <<"cat", "weather", "t.py">>,
                 <<"cat", "weather", "u.py">>, <<"cat", "weather", "notes.txt">>,
                 <<"cat", "rag", "__init__.py">>, <<"cat", "rag", "t.py">>,
                 <<"cat", "nomark", "v.py">>, <<"cat", "_h", "__init__.py">>,
                 <<"cat", "top.py">>, <<"cat2", "s.py">>, <<"s.py">>}

\* f"{tool_name}.py", item.stem, item.suffix == '.py'
PyFile == [t \in {"__init__", "d", "s", "t", "top", "u", "v", "x"} |->
             CASE t = "__init__" -> "__init__.py" [] t = "d" -> "d.py" [] t = "s" -> "s.py"
               [] t = "t" -> "t.py" [] t = "top" -> "top.py" [] t = "u" -> "u.py" [] t = "v" -> "v.py" [] t = "x" -> "x.py"]
Stems == DOMAIN PyFile
HasPySuffix(n) == \E t \in Stems : PyFile[t] = n
Stem(n) == CHOOSE t \in Stems : PyFile[t] = n
StemOrder == <<"__init__", "d", "s", "t", "top", "u", "v", "x">>

\* name.startswith('_'), name.startswith('.'), name.startswith('__')
StartsWithUnderscore(n) == n \in {"__init__.py", "_h"}
StartsWithDot(n) == n \in {"..", ".g"}
StartsWithDunder(n) == n = "__init__.py"

\* sorted(names)
SortNames(S) == SelectSeq(NameOrder, LAMBDA n : n \in S)
SortStems(S) == SelectSeq(StemOrder, LAMBDA t : t \in S)

\* pathlib's a / b: an absolute right operand replaces the left one
Join(base, arg) == IF arg.abs THEN arg.parts ELSE base \o arg.parts

\* what stat() makes of an absolute path: every component but the last must
\* be a directory; "found" is Path.exists()
Stat(p) ==
  LET RECURSIVE StatWalk(_, _)
      StatWalk(done, rest) ==
        IF rest = <<>> THEN [found |-> done \in CatalogDirs \cup CatalogFiles, real |-> done]
        ELSE IF done \notin CatalogDirs THEN [found |-> FALSE, real |-> done]
        ELSE IF Head(rest) = ".." THEN StatWalk(Parent(done), Tail(rest))
        ELSE StatWalk(Append(done, Head(rest)), Tail(rest))
  IN StatWalk(<<>>, p)
IsDir(st) == st.found /\ st.real \in CatalogDirs
IsFile(st) == st.found /\ st.real \in CatalogFiles

\* item.iterdir(): the names directly inside directory d
Children(d) == {p[Len(p)] : p \in {q \in CatalogDirs \cup CatalogFiles : q # <<>> /\ Parent(q) = d}}

\* lines 290, 326: str(full_path).startswith(str(self.servers_path.resolve()));
\* the text of the last name of w need only begin the text of a name of p
StrStartsWith(p, w) ==
  LET TextStartsWith(b, a) == a = b \/ (a = "cat" /\ b = "cat2") IN
  /\ Len(p) >= Len(w)
  /\ \A i \in 1..(Len(w) - 1) : p[i] = w[i]
  /\ w # <<>> => TextStartsWith(p[Len(w)], w[Len(w)])

\* the arguments: a path text is absolute or not, and a sequence of names
CatPathArgs ==
  [abs : BOOLEAN,
   parts : UNION {[1..n -> {"..", "cat", "cat2", "weather", "s.py", "t.py", "top.py", "x.py"}] :
                    n \in 0..MaxPathLen}]
ServerNameArgs ==
  [abs : BOOLEAN,
   parts : UNION {[1..n -> {"..", "cat2", "weather", "rag", "nomark", "top.py", "x.py"}] : n \in 0..2}]
ToolNameArgs ==
  [abs : BOOLEAN, parts : UNION {[1..n -> {"..", "cat2", "weather"}] : n \in 0..2}, stem : Stems]

\* what a call did: it returned (a text, or the list value) or raised
ReturnedValue(read, value) == [out |-> "returned", read |-> read, value |-> value]
Raised(e) == [out |-> e, read |-> {}, value |-> <<>>]

\* lines 184-193
list_tools(server_name) ==
  LET server_path == Stat(Join(servers_path, server_name)) IN
  IF ~server_path.found THEN Raised("ServerNotFoundError")
  ELSE IF ~IsDir(server_path) THEN Raised("NotADirectoryError")
  ELSE LET d == server_path.real
           tools == {Stem(n) : n \in {c \in Children(d) :
                        /\ Append(d, c) \in CatalogFiles
                        /\ HasPySuffix(c)
                        /\ Stem(c) # "__init__"}}
       IN ReturnedValue({d}, SortStems(tools))

\* lines 153-163
list_servers ==
  IF servers_path \notin CatalogDirs THEN <<>>
  ELSE SortNames({c \in Children(servers_path) :
          /\ Append(servers_path, c) \in CatalogDirs
          /\ ~StartsWithUnderscore(c)
          /\ ~StartsWithDot(c)
          /\ <<"cat", c, "__init__.py">> \in CatalogFiles})

\* lines 215, 260: self.servers_path / server_name / f"{tool_name}.py"
ToolPath(server_name, tool_name) ==
  Join(Join(servers_path, server_name),
       [abs |-> tool_name.abs, parts |-> Append(tool_name.parts, PyFile[tool_name.stem])])

\* lines 215-236: the existence test, then the file is opened and read
get_tool_summary(server_name, tool_name) ==
  LET tool_path == Stat(ToolPath(server_name, tool_name)) IN
  IF ~tool_path.found THEN Raised("ToolNotFoundError")
  ELSE IF IsDir(tool_path) THEN Raised("IsADirectoryError")
  ELSE ReturnedValue({tool_path.real}, <<>>)

\* lines 260-265
get_tool_definition(server_name, tool_name) ==
  LET tool_path == Stat(ToolPath(server_name, tool_name)) IN
  IF ~tool_path.found THEN Raised("ToolNotFoundError")
  ELSE IF IsDir(tool_path) THEN Raised("IsADirectoryError")
  ELSE ReturnedValue({tool_path.real}, <<>>)

\* lines 286-300
read_file(file_path) ==
  LET full_path == RealPath(Join(servers_path, file_path)) IN
  IF ~StrStartsWith(full_path, RealPath(servers_path)) THEN Raised("ToolDiscoveryError")
  ELSE IF full_path \notin CatalogDirs \cup CatalogFiles THEN Raised("ToolDiscoveryError")
  ELSE IF full_path \notin CatalogFiles THEN Raised("ToolDiscoveryError")
  ELSE ReturnedValue({full_path}, <<>>)

\* lines 322-344
list_directory(dir_path) ==
  LET full_path == RealPath(IF dir_path.abs \/ dir_path.parts # <<>>
                            THEN Join(servers_path, dir_path) ELSE servers_path) IN
  IF ~StrStartsWith(full_path, RealPath(servers_path)) THEN Raised("ToolDiscoveryError")
  ELSE IF full_path \notin CatalogDirs \cup CatalogFiles THEN Raised("ToolDiscoveryError")
  ELSE IF full_path \notin CatalogDirs THEN Raised("ToolDiscoveryError")
  ELSE ReturnedValue({full_path},
                 SortNames({c \in Children(full_path) : ~StartsWithDot(c) /\ ~StartsWithDunder(c)}))

\* one catalog call: op with the path its arguments name and what it did
CatalogCall(op, path, res) ==
  /\ cat_calls' = cat_calls + 1
  /\ cat_op' = op
  /\ cat_path' = [found |-> Stat(path).found, real |-> RealPath(path)]
  /\ cat_out' = res.out
  /\ cat_read' = res.read
  /\ cat_value' = res.value
  /\ UNCHANGED <<asyncVars, syncVars, openVars, envVars, leakVars, instanceVars, searchVars, taskVars, laterVars>>

CallReadFile ==
  /\ cat_calls < MaxCalls
  /\ \E p \in CatPathArgs : CatalogCall("read_file", Join(servers_path, p), read_file(p))
CallListDirectory ==
  /\ cat_calls < MaxCalls
  /\ \E p \in CatPathArgs : CatalogCall("list_directory", Join(servers_path, p), list_directory(p))
CallListTools ==
  /\ cat_calls < MaxCalls
  /\ \E sv \in ServerNameArgs : CatalogCall("list_tools", Join(servers_path, sv), list_tools(sv))
CallGetToolSummary ==
  /\ cat_calls < MaxCalls
  /\ \E sv \in ServerNameArgs, t \in ToolNameArgs :
       CatalogCall("get_tool_summary", ToolPath(sv, t), get_tool_summary(sv, t))
CallGetToolDefinition ==
  /\ cat_calls < MaxCalls
  /\ \E sv \in ServerNameArgs, t \in ToolNameArgs :
       CatalogCall("get_tool_definition", ToolPath(sv, t), get_tool_definition(sv, t))

InitCatalog == IdleAsync /\ IdleSync /\ IdleOpen /\ IdleEnv /\ IdleRest

NextCatalog ==
  \/ CallReadFile
  \/ CallListDirectory
  \/ CallListTools
  \/ CallGetToolSummary
  \/ CallGetToolDefinition

SpecCatalog == InitCatalog /\ [][NextCatalog]_vars

\* a canonical path is the catalog root or a descendant of it
InsideCatalog(q) == IsPrefix(servers_path, q)

\* C12: read_file and list_directory return content only when the resolved
\* path is the catalog root or a descendant of it, and otherwise raise
\* ToolDiscoveryError and read nothing outside the root.
C12_ReadConfined ==
  cat_op \in {"read_file", "list_directory"} =>
    /\ \A q \in cat_read : InsideCatalog(q)
    /\ ~InsideCatalog(cat_path.real) => cat_out = "ToolDiscoveryError"

\* C13: get_tool_definition raises ToolDiscoveryError for every pair of names
\* whose path escapes the catalog root and never returns the text of a file
\* outside the root.
C13_DefinitionConfined ==
  cat_op = "get_tool_definition" =>
    /\ \A q \in cat_read : InsideCatalog(q)
    /\ ~InsideCatalog(cat_path.real) => cat_out = "ToolDiscoveryError"

\* C20: list_tools raises ServerNotFoundError whenever the server directory is
\* absent and otherwise returns exactly the unit files directly inside it but
\* the package marker; get_tool_summary and get_tool_definition raise
\* ToolNotFoundError whenever the unit file is absent.
C20_LookupMissIsTyped ==
  /\ cat_op = "list_tools" =>
       IF cat_path.found /\ cat_path.real \in CatalogDirs
       THEN /\ cat_out = "returned"
            /\ {cat_value[i] : i \in DOMAIN cat_value} =
                 {t \in Stems \ {"__init__"} : Append(cat_path.real, PyFile[t]) \in CatalogFiles}
       ELSE cat_out = "ServerNotFoundError"
  /\ cat_op \in {"get_tool_summary", "get_tool_definition"} =>
       (~(cat_path.found /\ cat_path.real \in CatalogFiles) => cat_out = "ToolNotFoundError")

(***************************************************************************)
(* Relevance search (servers/discovery.py 346-512).  A text is the         *)
(* sequence of its characters.                                             *)
(***************************************************************************)
MaxTopK == 2

\* str.lower()
LowerText(s) ==
  LET Lower(c) == CASE c = "T" -> "t" [] c = "U" -> "u" [] OTHER -> c
  IN [i \in DOMAIN s |-> Lower(s[i])]

\* set(text.split()): the maximal runs of characters other than white space
Terms(s) ==
  LET RECURSIVE SplitFrom(_, _, _)
      SplitFrom(rest, word, words) ==
        IF rest = <<>> THEN (IF word = <<>> THEN words ELSE words \cup {word})
        ELSE IF Head(rest) = " "
             THEN SplitFrom(Tail(rest), <<>>, IF word = <<>> THEN words ELSE words \cup {word})
             ELSE SplitFrom(Tail(rest), Append(word, Head(rest)), words)
  IN SplitFrom(s, <<>>, {})

\* query_lower in text
IsSubstring(q, s) == \E i \in 0..(Len(s) - Len(q)) : SubSeq(s, i + 1, i + Len(q)) = q

\* the leading docstring of each unit file: its first non-blank line, if any
DocString ==
  [k \in {<<"rag", "t">>, <<"weather", "t">>, <<"weather", "u">>} |->
     IF k = <<"weather", "u">> THEN [match |-> FALSE, line |-> <<>>]
     ELSE [match |-> TRUE, line |-> <<"u">>]]

\* a tool name is spelled as its letters; the names of the listed tools are
\* one letter long
NameText(tool) == <<tool>>

\* lines 224-230: the description get_tool_summary returns: the docstring
\* line, or tool_name.replace('_', ' ').title()
Description(server, tool) ==
  LET Upper(c) == CASE c = "t" -> "T" [] c = "u" -> "U" [] OTHER -> c
      Title(s) == [i \in DOMAIN s |-> IF i = 1 \/ s[i - 1] = " " THEN Upper(s[i]) ELSE s[i]]
  IN IF DocString[<<server, tool>>].match THEN DocString[<<server, tool>>].line
     ELSE Title(NameText(tool))

\* lines 425, 461: f"{summary['name']} {summary['description']}"
SummaryText(server, tool) == NameText(tool) \o <<" ">> \o Description(server, tool)

\* lines 418-419, 456-457: the catalog in scan order
Scan ==
  LET RECURSIVE ScanFrom(_)
      ScanFrom(servers) ==
        IF servers = <<>> THEN <<>>
        ELSE LET tools == list_tools([abs |-> FALSE, parts |-> <<Head(servers)>>]).value
             IN [i \in DOMAIN tools |-> <<Head(servers), tools[i]>>] \o ScanFrom(Tail(servers))
  IN ScanFrom(list_servers)

\* lines 464-470: the keyword score of one tool
KeywordScore(query, server, tool) ==
  LET query_lower == LowerText(query)
      text == LowerText(SummaryText(server, tool))
  IN IF IsSubstring(query_lower, text) THEN 10
     ELSE Cardinality(Terms(query_lower) \cap Terms(text))

\* among elements of equal key, those that stay ahead of the element at
\* position i: the ones ahead of it before the sort
TiesReversed(i, j) == j > i

TiesAhead(i, j) == j < i

\* lines 136-138: the similarity of a and b as the fraction num / den of
\* its square.  The components are positive, so similarities compare as
\* their squares
cosine_similarity(a, b) ==
  LET Dot(x, y) == x[1] * y[1] + x[2] * y[2]
  IN [num |-> Dot(a, b) * Dot(a, b), den |-> Dot(a, a) * Dot(b, b)]

\* the order of two scores, each a fraction
LessSimilar(x, y) == x.num * y.den < y.num * x.den

\* list.sort(key=lambda x: x[0], reverse=True): a stable sort of entries
\* (score, server, tool), greatest score first
SortDescending(s) ==
  LET Less(a, b) == LessSimilar(a[1], b[1])
      Rank(i) == Cardinality({j \in DOMAIN s : Less(s[i], s[j])})
                 + Cardinality({j \in DOMAIN s : /\ ~Less(s[i], s[j])
                                                  /\ ~Less(s[j], s[i])
                                                  /\ TiesAhead(i, j)})
                 + 1
  IN [p \in DOMAIN s |-> s[CHOOSE i \in DOMAIN s : Rank(i) = p]]

\* all_tools[:top_k]
Slice(s, k) ==
  IF k >= 0 THEN SubSeq(s, 1, IF k < Len(s) THEN k ELSE Len(s))
  ELSE SubSeq(s, 1, IF Len(s) + k > 0 THEN Len(s) + k ELSE 0)

\* lines 487-512
format_results(tools, detail_level) ==
  [i \in DOMAIN tools |-> [server |-> tools[i][1], name |-> tools[i][2], detail |-> detail_level]]

\* Op applied to the value of e
With(e, Op(_)) == CHOOSE y \in {Op(x) : x \in {e}} : TRUE

\* lines 456-479: the (score, server, tool) entries with a positive score,
\* sorted on the score and cut, as (server, tool) pairs
KeywordRanking(query, top_k) ==
  With([i \in DOMAIN Scan |-> <<[num |-> KeywordScore(query, Scan[i][1], Scan[i][2]), den |-> 1],
                                 Scan[i][1], Scan[i][2]>>],
       LAMBDA all :
         LET results == SelectSeq(all, LAMBDA e : e[1].num > 0)
             top == Slice(SortDescending(results), top_k)
         IN [i \in DOMAIN top |-> <<top[i][2], top[i][3]>>])

keyword_search(query, top_k, detail_level) == format_results(KeywordRanking(query, top_k), detail_level)

(***************************************************************************)
(* Similarity ranking and the embedding cache (discovery.py 63-138,        *)
(* 398-441)                                                                *)
(***************************************************************************)
\* line 420: f"{server}.{tool}"
CacheKey(server, tool) == server \o "." \o tool

\* lines 130-133: the vector the embedding backend gives for a text
Embedding(text) ==
  LET Count(c) == Cardinality({i \in DOMAIN text : text[i] = c})
  IN <<1 + 3 * Count("t") + Count("T"), 1 + 3 * Count("u") + Count("U")>>

\* line 134: np.array(..., dtype=np.float32) rounds each component to the
\* nearest value float32 has
Float32(v) == [i \in DOMAIN v |-> 2 * ((v[i] + 1) \div 2)]

\* pickle of a float32 array: each component as two base-4 digits, the
\* wider one first
ToBytes(v) == [i \in 1..(2 * Len(v)) |-> IF i % 2 = 1 THEN v[(i + 1) \div 2] \div 4
                                          ELSE v[i \div 2] % 4]

\* the bytes read back at half the width
FromBytesNarrow(b) == [i \in 1..(Len(b) \div 2) |-> 2 * b[2 * i - 1] + b[2 * i]]

FromBytes(b) == [i \in 1..(Len(b) \div 2) |-> 4 * b[2 * i - 1] + b[2 * i]]

\* line 112: pickle.dumps(self.embeddings_cache)
PickleHeader == [key |-> "PICKLE", vec |-> <<>>]
Dumps(cache) == <<PickleHeader>> \o [i \in DOMAIN cache |-> [key |-> cache[i].key, vec |-> ToBytes(cache[i].vec)]]

\* line 100: pickle.loads(content); the bytes of no pickle raise
Loadable(bytes) == bytes # <<>> /\ Head(bytes) = PickleHeader
Loads(bytes) == [i \in 1..(Len(bytes) - 1) |-> [key |-> bytes[i + 1].key, vec |-> FromBytes(bytes[i + 1].vec)]]

\* cache_key in self.embeddings_cache, self.embeddings_cache[cache_key]
Keys(cache) == {cache[i].key : i \in DOMAIN cache}
Lookup(cache, k) == cache[CHOOSE i \in DOMAIN cache : cache[i].key = k].vec

\* self.embeddings_cache[cache_key] = embedding
Store(cache, k, v) ==
  IF k \in Keys(cache) THEN [i \in DOMAIN cache |-> IF cache[i].key = k THEN [key |-> k, vec |-> v] ELSE cache[i]]
  ELSE Append(cache, [key |-> k, vec |-> v])

\* what can go wrong in one call: nothing; the cache file cannot be read;
\* the backend fails on the query; or, at the tool in scan position "at",
\* the backend fails, the cache file cannot be opened for writing, or the
\* write fails after the file was truncated
NoFault == [kind |-> "none", at |-> 0]
Faults ==
  {NoFault, [kind |-> "load", at |-> 0], [kind |-> "embed_query", at |-> 0]}
    \cup [kind : {"embed_tool", "save_open", "save_write"}, at : DOMAIN Scan]

\* the state a call works on
Instance == [client |-> openai_client, cache |-> embeddings_cache, loaded |-> cache_loaded,
             file |-> cache_file, raised |-> "None", embedded |-> {}, read |-> {}, save_failed |-> FALSE]

\* lines 90-102
load_embeddings_cache(st, fault) ==
  IF st.loaded THEN st
  ELSE IF ~st.file.exists THEN [st EXCEPT !.cache = <<>>, !.loaded = TRUE]
  ELSE IF fault.kind = "load" THEN [st EXCEPT !.raised = "OSError"]
  ELSE IF ~Loadable(st.file.bytes) THEN [st EXCEPT !.raised = "EOFError"]
  ELSE [st EXCEPT !.cache = Loads(st.file.bytes), !.loaded = TRUE,
                  !.read = Keys(Loads(st.file.bytes))]

\* lines 111-112: the failure of the save reaches the caller
SaveSwallowed(kind) == FALSE

SaveRaises(kind) == kind \in {"save_open", "save_write"}

save_embeddings_cache(st, kind) ==
  LET file == IF kind = "save_open" THEN st.file
              ELSE IF kind = "save_write" THEN [exists |-> TRUE, bytes |-> <<>>]
              ELSE [exists |-> TRUE, bytes |-> Dumps(st.cache)]
  IN [st EXCEPT !.file = file,
                !.save_failed = kind \in {"save_open", "save_write"},
                !.raised = IF SaveRaises(kind) THEN "OSError" ELSE "None"]

\* lines 70-81 and 128-134: the client is made on first use; "what" names
\* the text embedded ("query" or a cache key)
get_embedding(st, what, failing) ==
  IF ~st.client /\ ~api_key THEN [st EXCEPT !.raised = "ConfigurationError"]
  ELSE IF failing THEN [st EXCEPT !.client = TRUE, !.raised = "APIError"]
  ELSE [st EXCEPT !.client = TRUE, !.embedded = @ \cup {what}]

\* lines 418-434: the loop over the catalog, from scan position i on;
\* EmbedTool is one pass of it (420-428)
RECURSIVE EmbedTools(_, _, _)
EmbedTools(i, st_, fault) ==
  LET EmbedTool(st) ==
        LET cache_key == CacheKey(Scan[i][1], Scan[i][2]) IN
        IF st.raised # "None" \/ cache_key \in Keys(st.cache) THEN st
        ELSE With(get_embedding(st, cache_key, fault.kind = "embed_tool" /\ fault.at = i), LAMBDA got :
               IF got.raised # "None" THEN got
               ELSE save_embeddings_cache(
                      [got EXCEPT !.cache = Store(@, cache_key,
                                                  Float32(Embedding(SummaryText(Scan[i][1], Scan[i][2]))))],
                      IF fault.at = i THEN fault.kind ELSE "none"))
  IN With(st_, LAMBDA st :
       IF i > Len(Scan) THEN st ELSE EmbedTools(i + 1, EmbedTool(st), fault))

\* lines 430-438: the ranked (server, tool) pairs, before formatting
SimilarityRanking(query, top_k, cache) ==
  With([i \in DOMAIN Scan |->
          <<cosine_similarity(Float32(Embedding(query)), Lookup(cache, CacheKey(Scan[i][1], Scan[i][2]))),
            Scan[i][1], Scan[i][2]>>],
       LAMBDA results :
         LET top == Slice(SortDescending(results), top_k)
         IN [i \in DOMAIN top |-> <<top[i][2], top[i][3]>>])

\* lines 411-441: the instance afterwards, with the results in "value"
semantic_search(query, top_k, detail_level, fault) ==
  With(load_embeddings_cache(Instance, fault), LAMBDA loaded :
    With(IF loaded.raised # "None" THEN loaded
         ELSE get_embedding(loaded, "query", fault.kind = "embed_query"), LAMBDA asked :
      With(IF asked.raised # "None" THEN asked ELSE EmbedTools(1, asked, fault), LAMBDA done :
        [st |-> done,
         value |-> IF done.raised # "None" THEN <<>>
                   ELSE format_results(SimilarityRanking(query, top_k, done.cache), detail_level)])))

\* line 391: except ConfigurationError
CaughtAny(e) == TRUE

Caught(e) == e = "ConfigurationError"

\* lines 386-396: the instance afterwards (st) and what the caller gets (res)
search_tools(query, top_k, detail_level, use_semantic, fault) ==
  LET SearchReport(o, v, p, st) ==
        [st |-> st,
         res |-> [out |-> o, value |-> v, path |-> p, raised |-> st.raised,
                  embedded |-> st.embedded, read |-> st.read, save_failed |-> st.save_failed]]
  IN
  IF ~use_semantic
  THEN SearchReport("returned", keyword_search(query, top_k, detail_level), "keyword", Instance)
  ELSE With(semantic_search(query, top_k, detail_level, fault), LAMBDA sem :
         IF sem.st.raised = "None" /\ sem.value # <<>>
         THEN SearchReport("returned", sem.value, "semantic", sem.st)
         ELSE IF sem.st.raised = "None" \/ Caught(sem.st.raised)
         THEN SearchReport("returned", keyword_search(query, top_k, detail_level), "keyword", sem.st)
         ELSE SearchReport(sem.st.raised, <<>>, "semantic", sem.st))

Queries == {<<"T">>, <<"u", " ", "u">>}
TopKs == (0 - 1)..MaxTopK
DetailLevels == {"name", "full"}
SearchArgs == [query : Queries, top_k : TopKs, detail_level : DetailLevels, use_semantic : BOOLEAN]

\* one call of search_tools, run to its end
SearchTools(a, fault) ==
  /\ a.use_semantic \/ fault = NoFault
  /\ \E r \in {search_tools(a.query, a.top_k, a.detail_level, a.use_semantic, fault)} :
       /\ search_args' = a
       /\ search_result' = r.res
       /\ openai_client' = r.st.client
       /\ embeddings_cache' = r.st.cache
       /\ cache_loaded' = r.st.loaded
       /\ cache_file' = r.st.file
  /\ UNCHANGED <<asyncVars, syncVars, openVars, envVars, leakVars, catalogVars, taskVars, laterVars, api_key>>

\* the process ends; a new one makes a new ToolDiscovery on the same root
Restart ==
  /\ search_result.out # "none"
  /\ openai_client' = FALSE
  /\ embeddings_cache' = <<>>
  /\ cache_loaded' = FALSE
  /\ search_args' = NoArgs
  /\ search_result' = NoSearch
  /\ UNCHANGED <<asyncVars, syncVars, openVars, envVars, leakVars, catalogVars, taskVars, laterVars, api_key, cache_file>>

InitSearch ==
  /\ IdleAsync /\ IdleSync /\ IdleOpen /\ IdleEnv /\ IdleLeak /\ IdleCatalog /\ IdleSearch /\ IdleTask /\ IdleLater
  /\ api_key \in BOOLEAN
  /\ NewInstance
  /\ cache_file = [exists |-> FALSE, bytes |-> <<>>]

NextSearch ==
  \/ \E a \in SearchArgs, fault \in Faults : SearchTools(a, fault)
  \/ Restart

SpecSearch == InitSearch /\ [][NextSearch]_vars

\* the keys the cache file holds
Persisted == IF cache_file.exists /\ Loadable(cache_file.bytes) THEN Keys(Loads(cache_file.bytes)) ELSE {}

\* C15: when persisting the cache fails during a search, search_tools raises
\* to its caller (no results, no keyword ranking in their place), and no key
\* leaves the cache file in a call that returns.
C15_SaveFailureSurfaced ==
  /\ [](search_result.save_failed =>
          /\ search_result.out = "OSError"
          /\ search_result.value = <<>>)
  /\ [][(\E k \in Persisted : k \notin Persisted') => search_result'.out = "OSError"]_vars

C15_Witness ==
  /\ search_result.save_failed
  /\ search_result.out = "OSError"
  /\ search_result.embedded # {}
  /\ Keys(embeddings_cache) # Persisted

\* C16: a new instance that loads the saved cache and searches makes no
\* embedding call for a tool the cache file holds, and uses for it the
\* vector that was stored.
C16_CacheRoundTrip ==
  [][LET StoredVector(k) ==
           LET i == CHOOSE j \in DOMAIN Scan : CacheKey(Scan[j][1], Scan[j][2]) = k
           IN Float32(Embedding(SummaryText(Scan[i][1], Scan[i][2])))
     IN (~cache_loaded /\ cache_loaded' /\ cache_file.exists)
          => \A k \in Persisted : /\ k \notin search_result'.embedded
                                  /\ k \in Keys(embeddings_cache')
                                  /\ Lookup(embeddings_cache', k) = StoredVector(k)]_vars

C16_Witness ==
  /\ search_result.out = "returned"
  /\ search_result.path = "semantic"
  /\ search_result.read = {CacheKey(Scan[i][1], Scan[i][2]) : i \in DOMAIN Scan}
  /\ search_result.embedded = {"query"}

\* the score a returned entry was ranked on, as a fraction
UsedScore(e) ==
  IF search_result.path = "keyword"
  THEN [num |-> KeywordScore(search_args.query, e.server, e.name), den |-> 1]
  ELSE cosine_similarity(Float32(Embedding(search_args.query)),
                         Lookup(embeddings_cache, CacheKey(e.server, e.name)))

\* the place of a returned entry in the catalog scan
ScanPosition(e) == CHOOSE i \in DOMAIN Scan : Scan[i] = <<e.server, e.name>>

\* C17: for every query and every top_k value k, search_tools returns at
\* most k results, in order of non-increasing score, on both paths.
C17_AtMostKSorted ==
  search_result.out = "returned" =>
    /\ Len(search_result.value) <= search_args.top_k
    /\ \A i, j \in DOMAIN search_result.value :
         i < j => ~LessSimilar(UsedScore(search_result.value[i]), UsedScore(search_result.value[j]))

ScanKey(i) == CacheKey(Scan[i][1], Scan[i][2])

OtherTaskVars == <<asyncVars, syncVars, openVars, envVars, leakVars, catalogVars, searchVars, laterVars>>

\* lines 411, 90-99: the call starts; with a cache file to read, it is
\* suspended in the read
BeginLoad(t) ==
  /\ task_pc[t] = "new"
  /\ IF cache_loaded
     THEN /\ task_pc' = [task_pc EXCEPT ![t] = "query"]
          /\ UNCHANGED <<embeddings_cache, cache_loaded>>
     ELSE IF ~cache_file.exists
     THEN /\ embeddings_cache' = <<>>
          /\ cache_loaded' = TRUE
          /\ task_pc' = [task_pc EXCEPT ![t] = "query"]
     ELSE /\ task_pc' = [task_pc EXCEPT ![t] = "reading"]
          /\ UNCHANGED <<embeddings_cache, cache_loaded>>
  /\ UNCHANGED <<OtherTaskVars, api_key, openai_client, cache_file, task_at, task_bytes, embed_calls, added>>

\* lines 99-102: the read is done; the map is replaced by what was read
FinishLoad(t) ==
  /\ task_pc[t] = "reading"
  /\ IF Loadable(cache_file.bytes)
     THEN /\ embeddings_cache' = Loads(cache_file.bytes)
          /\ cache_loaded' = TRUE
          /\ task_pc' = [task_pc EXCEPT ![t] = "query"]
     ELSE /\ task_pc' = [task_pc EXCEPT ![t] = "EOFError"]
          /\ UNCHANGED <<embeddings_cache, cache_loaded>>
  /\ UNCHANGED <<OtherTaskVars, api_key, openai_client, cache_file, task_at, task_bytes, embed_calls, added>>

\* lines 418-425: the loop goes on from scan position i to the first tool
\* missing from the cache, and is suspended in the embedding call for it
LoopFrom(t, i, cache) ==
  LET RECURSIVE NextMiss(_)
      NextMiss(j) == IF j > Len(Scan) \/ ScanKey(j) \notin Keys(cache) THEN j ELSE NextMiss(j + 1)
      miss == NextMiss(i)
  IN
  /\ task_at' = [task_at EXCEPT ![t] = miss]
  /\ IF miss > Len(Scan)
     THEN /\ task_pc' = [task_pc EXCEPT ![t] = "done"]
          /\ UNCHANGED embed_calls
     ELSE /\ task_pc' = [task_pc EXCEPT ![t] = "embedding"]
          /\ embed_calls' = Append(embed_calls, ScanKey(miss))

\* line 413: the embedding of the query is back
QueryEmbedded(t) ==
  /\ task_pc[t] = "query"
  /\ openai_client' = TRUE
  /\ LoopFrom(t, 1, embeddings_cache)
  /\ UNCHANGED <<OtherTaskVars, api_key, embeddings_cache, cache_loaded, cache_file, task_bytes, added>>

\* lines 426-428, 111: the embedding is back and is stored; the task is
\* suspended opening the cache file
ToolEmbedded(t) ==
  /\ task_pc[t] = "embedding"
  /\ embeddings_cache' = Store(embeddings_cache, ScanKey(task_at[t]),
                                Float32(Embedding(SummaryText(Scan[task_at[t]][1], Scan[task_at[t]][2]))))
  /\ added' = added \cup {ScanKey(task_at[t])}
  /\ task_pc' = [task_pc EXCEPT ![t] = "opening"]
  /\ UNCHANGED <<OtherTaskVars, api_key, openai_client, cache_loaded, cache_file, task_at, task_bytes, embed_calls>>

\* lines 111-112: the file is open for writing, and empty; the map is
\* pickled as it is now and the task is suspended in the write
FileOpened(t) ==
  /\ task_pc[t] = "opening"
  /\ cache_file' = [exists |-> TRUE, bytes |-> <<>>]
  /\ task_bytes' = [task_bytes EXCEPT ![t] = Dumps(embeddings_cache)]
  /\ task_pc' = [task_pc EXCEPT ![t] = "writing"]
  /\ UNCHANGED <<OtherTaskVars, api_key, openai_client, embeddings_cache, cache_loaded, task_at, embed_calls, added>>

\* line 112, 430-434, 418-425: the bytes are in the file, from its start;
\* the loop goes on
FileWritten(t) ==
  /\ task_pc[t] = "writing"
  /\ cache_file' = [exists |-> TRUE, bytes |-> task_bytes[t]]
  /\ LoopFrom(t, task_at[t] + 1, embeddings_cache)
  /\ UNCHANGED <<OtherTaskVars, api_key, openai_client, embeddings_cache, cache_loaded, task_bytes, added>>

\* the cache file at the start: none, or one saved by an earlier process
\* after its first tool
InitCache ==
  /\ IdleAsync /\ IdleSync /\ IdleOpen /\ IdleEnv /\ IdleLeak /\ IdleCatalog /\ IdleSearch /\ IdleTask /\ IdleLater
  /\ api_key = TRUE
  /\ NewInstance
  /\ cache_file \in {[exists |-> FALSE, bytes |-> <<>>],
                     [exists |-> TRUE,
                      bytes |-> Dumps(<<[key |-> ScanKey(1),
                                         vec |-> Float32(Embedding(SummaryText(Scan[1][1], Scan[1][2])))]>>)]}

NextCache ==
  \E t \in Task :
    \/ BeginLoad(t)
    \/ FinishLoad(t)
    \/ QueryEmbedded(t)
    \/ ToolEmbedded(t)
    \/ FileOpened(t)
    \/ FileWritten(t)

SpecCache == InitCache /\ [][NextCache]_vars

\* C14: in every interleaving of concurrent searches on one instance, a
\* cache key is embedded at most once, and when all the calls have
\* finished the cache file holds every key a call added.
C14_CacheExclusive ==
  /\ \A i, j \in DOMAIN embed_calls : embed_calls[i] = embed_calls[j] => i = j
  /\ (\A t \in Task : task_pc[t] = "done") => added \subseteq Persisted

\* C26: on the keyword path a tool scores 10 when the lowercased query is a
\* substring of its lowercased "name description" text, and otherwise the
\* number of distinct query terms that are terms of that text; it is in the
\* result if and only if its score is positive and fewer than top_k tools
\* stand ahead of it by score.
C26_KeywordMembership ==
  (search_result.out = "returned" /\ search_result.path = "keyword") =>
    LET q == LowerText(search_args.query)
        Text(i) == LowerText(SummaryText(Scan[i][1], Scan[i][2]))
        Score(i) == IF IsSubstring(q, Text(i)) THEN 10
                    ELSE Cardinality({w \in Terms(q) : w \in Terms(Text(i))})
        Ahead(i) == Cardinality({j \in DOMAIN Scan :
                                   Score(j) > Score(i) \/ (Score(j) = Score(i) /\ j < i)})
    IN \A i \in DOMAIN Scan :
         (\E p \in DOMAIN search_result.value :
            <<search_result.value[p].server, search_result.value[p].name>> = Scan[i])
           <=> (Score(i) > 0 /\ Ahead(i) < search_args.top_k)

\* C30: at the end of every search_tools call that returns through the
\* similarity path, every key of the in-memory cache is in the cache file,
\* whatever searches came before, those whose cache save failed included.
C30_CacheFileConsistent ==
  (search_result.out = "returned" /\ search_result.path = "semantic") =>
    Keys(embeddings_cache) \subseteq Persisted

\* C27: the in-memory embedding cache is read from its file once and then
\* only grows: in every interleaving of searches on one instance, a key that
\* is in the cache stays in it, with the same vector, at every later step.
C27_CacheOnlyGrows ==
  [][\A k \in Keys(embeddings_cache) :
       /\ k \in Keys(embeddings_cache')
       /\ Lookup(embeddings_cache', k) = Lookup(embeddings_cache, k)]_vars

(***************************************************************************)
(* The two listings of the servers root                                    *)
(*   servers/discovery.py 140-163            ToolDiscovery.list_servers    *)
(*   servers/_discovery/explorer.py 39-61    ToolExplorer.list_servers     *)
(* An entry of the root is absent, a regular file ("file"), a directory    *)
(* without the package marker ("dir") or a directory holding __init__.py   *)
(* ("pkg").  The root itself exists.                                       *)
(***************************************************************************)
EntryKinds == {"absent", "file", "dir", "pkg"}

\* sorted(servers)
SortRoot(S) == SelectSeq(RootOrder, LAMBDA n : n \in S)

\* discovery.py 154-163
discovery_list_servers(tree) ==
  SortRoot({n \in RootNames :
              /\ tree[n] \in {"dir", "pkg"}
              /\ ~StartsWithUnderscore(n)
              /\ ~StartsWithDot(n)
              /\ tree[n] = "pkg"})

\* explorer.py 50-61
explorer_list_servers(tree) ==
  SortRoot({n \in RootNames :
              /\ ~StartsWithUnderscore(n)
              /\ tree[n] \in {"dir", "pkg"}
              /\ tree[n] = "pkg"})

\* the tree changes between calls: mkdir, a file written, __init__.py added
\* to a directory, an entry removed
MakeDir(n) ==
  /\ server_tree[n] = "absent"
  /\ server_tree' = [server_tree EXCEPT ![n] = "dir"]
  /\ UNCHANGED <<asyncVars, syncVars, openVars, envVars, leakVars, catalogVars, instanceVars, searchVars, taskVars, metricsVars, validateVars, wrapVars, list_call>>

WriteFile(n) ==
  /\ server_tree[n] = "absent"
  /\ server_tree' = [server_tree EXCEPT ![n] = "file"]
  /\ UNCHANGED <<asyncVars, syncVars, openVars, envVars, leakVars, catalogVars, instanceVars, searchVars, taskVars, metricsVars, validateVars, wrapVars, list_call>>

AddMarker(n) ==
  /\ server_tree[n] = "dir"
  /\ server_tree' = [server_tree EXCEPT ![n] = "pkg"]
  /\ UNCHANGED <<asyncVars, syncVars, openVars, envVars, leakVars, catalogVars, instanceVars, searchVars, taskVars, metricsVars, validateVars, wrapVars, list_call>>

RemoveEntry(n) ==
  /\ server_tree[n] # "absent"
  /\ server_tree' = [server_tree EXCEPT ![n] = "absent"]
  /\ UNCHANGED <<asyncVars, syncVars, openVars, envVars, leakVars, catalogVars, instanceVars, searchVars, taskVars, metricsVars, validateVars, wrapVars, list_call>>

DiscoveryListServers ==
  /\ list_call' = [by |-> "ToolDiscovery", tree |-> server_tree,
                   value |-> discovery_list_servers(server_tree)]
  /\ UNCHANGED <<asyncVars, syncVars, openVars, envVars, leakVars, catalogVars, instanceVars, searchVars, taskVars, metricsVars, validateVars, wrapVars, server_tree>>

ExplorerListServers ==
  /\ list_call' = [by |-> "ToolExplorer", tree |-> server_tree,
                   value |-> explorer_list_servers(server_tree)]
  /\ UNCHANGED <<asyncVars, syncVars, openVars, envVars, leakVars, catalogVars, instanceVars, searchVars, taskVars, metricsVars, validateVars, wrapVars, server_tree>>

InitServers ==
  /\ IdleAsync /\ IdleSync /\ IdleOpen /\ IdleEnv
  /\ IdleLeak /\ IdleCatalog /\ IdleInstance /\ IdleSearch /\ IdleTask /\ IdleMetrics /\ IdleValidate /\ IdleWrap
  /\ server_tree \in [RootNames -> {"absent", "pkg"}]
  /\ list_call = NoListCall

NextServers ==
  \/ \E n \in RootNames : MakeDir(n)
  \/ \E n \in RootNames : WriteFile(n)
  \/ \E n \in RootNames : AddMarker(n)
  \/ \E n \in RootNames : RemoveEntry(n)
  \/ DiscoveryListServers
  \/ ExplorerListServers

SpecServers == InitServers /\ [][NextServers]_vars

\* C21: every list_servers call, of ToolDiscovery and of ToolExplorer alike,
\* returns in sorted order exactly the entries of the root that are
\* directories holding the package marker and whose name begins with neither
\* '_' nor '.'  (so that the list is a function of the tree at the call: it
\* repeats on an unchanged tree and shows a new server on the next call).
C21_SameSortedListing ==
  list_call.by # "none" =>
    /\ \A n \in RootNames :
         (\E i \in DOMAIN list_call.value : list_call.value[i] = n)
           <=> (list_call.tree[n] = "pkg" /\ n \notin {".g", "_h"})
    /\ \A i, j \in DOMAIN list_call.value :
         i < j => \E a, b \in DOMAIN RootOrder :
                    a < b /\ RootOrder[a] = list_call.value[i] /\ RootOrder[b] = list_call.value[j]

(***************************************************************************)
(* The metrics recorder                                                    *)
(*   app/agent_core/monitoring.py 11-107      Metrics                      *)
(*   app/agent_core/orchestrator.py 62-188    AgentOrchestrator.execute    *)
(* execute is a coroutine: between metrics.start() and save_to_log it      *)
(* awaits the model and the harness, so executions of one process overlap  *)
(* or follow one another within the same second.                           *)
(***************************************************************************)
OtherMetricsVars == <<asyncVars, syncVars, openVars, envVars, leakVars, catalogVars, instanceVars,
                      searchVars, taskVars, serversVars, validateVars, wrapVars>>

\* monitoring.py 98: start_time.strftime("%Y%m%d_%H%M%S") names the file to
\* the second
LogStamp(t) == t

\* orchestrator.py 77-78: metrics = Metrics(); metrics.start()
MetricsStart(e) ==
  /\ run_pc[e] = "new"
  /\ run_pc' = [run_pc EXCEPT ![e] = "started"]
  /\ start_time' = [start_time EXCEPT ![e] = wall_clock]
  /\ UNCHANGED <<OtherMetricsVars, wall_clock, log_files>>

\* monitoring.py 85-107, called at orchestrator.py 159-165 (success) or
\* 181-185 (error): open(log_file, 'w') replaces what the file held
save_to_log(files, e, status) ==
  [files EXCEPT ![LogStamp(start_time[e])] = [run |-> e, status |-> status]]

SaveToLog(e, status) ==
  /\ run_pc[e] = "started"
  /\ run_pc' = [run_pc EXCEPT ![e] = "saved"]
  /\ log_files' = save_to_log(log_files, e, status)
  /\ UNCHANGED <<OtherMetricsVars, wall_clock, start_time>>

\* a second passes
ClockTick ==
  /\ wall_clock < MaxClock
  /\ wall_clock' = wall_clock + 1
  /\ UNCHANGED <<OtherMetricsVars, start_time, run_pc, log_files>>

InitMetrics ==
  /\ IdleAsync /\ IdleSync /\ IdleOpen /\ IdleEnv
  /\ IdleLeak /\ IdleCatalog /\ IdleInstance /\ IdleSearch /\ IdleTask /\ IdleServers /\ IdleValidate /\ IdleWrap
  /\ IdleMetrics

NextMetrics ==
  \/ \E e \in Run : MetricsStart(e)
  \/ \E e \in Run, status \in {"success", "error"} : SaveToLog(e, status)
  \/ ClockTick

SpecMetrics == InitMetrics /\ [][NextMetrics]_vars

\* C24: one record is persisted per execution: every execution that has
\* saved its metrics has a record of its own among the log files, so that N
\* executions leave N distinct records, none overwritten or omitted.
C24_OneRecordPerExecution ==
  \A e \in Run : run_pc[e] = "saved" => \E t \in Stamp : log_files[t].run = e

(***************************************************************************)
(* CodeExecutor.validate_code (app/agent_core/code_executor.py 256-289)    *)
(* A script is a sequence of source lines.                                 *)
(***************************************************************************)
MaxLines == 2

Lines == {"import os", "from os import path", "os.system('ls')", "import subprocess",
          "subprocess.run(['ls'])", "x = eval('1')", "exec('pass')", "compile('1', 'f', 'eval')",
          "print(__builtins__)", "print('hi')", "def f(:"}

\* lines 267-274, in the order the loop tries them
dangerous_patterns == <<"import subprocess", "subprocess.", "__builtins__", "eval(", "exec(", "compile(">>

\* pattern in line
PatternIn(pattern, line) ==
  CASE pattern = "import subprocess" -> line = "import subprocess"
    [] pattern = "subprocess." -> line = "subprocess.run(['ls'])"
    [] pattern = "__builtins__" -> line = "print(__builtins__)"
    [] pattern = "eval(" -> line = "x = eval('1')"
    [] pattern = "exec(" -> line = "exec('pass')"
    [] pattern = "compile(" -> line = "compile('1', 'f', 'eval')"
    [] OTHER -> FALSE

\* compile(code, '<string>', 'exec') raises SyntaxError
Uncompilable(text) == \E i \in DOMAIN text : text[i] = "def f(:"

\* lines 276-289
validate_code(text) ==
  LET found == {k \in DOMAIN dangerous_patterns :
                  \E i \in DOMAIN text : PatternIn(dangerous_patterns[k], text[i])}
  IN IF found # {}
       THEN [is_valid |-> FALSE, kind |-> "Dangerous pattern detected",
             pattern |-> dangerous_patterns[CHOOSE k \in found : \A m \in found : k <= m]]
     ELSE IF Uncompilable(text)
       THEN [is_valid |-> FALSE, kind |-> "Syntax error", pattern |-> "none"]
     ELSE [is_valid |-> TRUE, kind |-> "", pattern |-> "none"]

ValidateCode(text) ==
  /\ checked_code' = text
  /\ verdict' = validate_code(text)
  /\ UNCHANGED <<asyncVars, syncVars, openVars, envVars, leakVars, catalogVars, instanceVars,
                 searchVars, taskVars, serversVars, metricsVars, wrapVars>>

CodeTexts == UNION {[1..n -> Lines] : n \in 0..MaxLines}

InitValidate ==
  /\ IdleAsync /\ IdleSync /\ IdleOpen /\ IdleEnv
  /\ IdleLeak /\ IdleCatalog /\ IdleInstance /\ IdleSearch /\ IdleTask
  /\ IdleServers /\ IdleMetrics /\ IdleValidate /\ IdleWrap

NextValidate == \E text \in CodeTexts : ValidateCode(text)

SpecValidate == InitValidate /\ [][NextValidate]_vars

\* the script imports os; the text of the error message contains "import os"
ImportsOs(text) == \E i \in DOMAIN text : text[i] \in {"import os", "from os import path"}
NamesImportOs(v) == v.kind = "Dangerous pattern detected" /\ v.pattern = "import os"

\* C25: validate_code rejects every script that imports os, with an error
\* message naming 'import os'.
C25_ImportOsRejected ==
  ImportsOs(checked_code) => ~verdict.is_valid /\ NamesImportOs(verdict)

(***************************************************************************)
(* Scripts that only print, run directly or wrapped                        *)
(* (app/agent_core/harness.py 190-216)                                     *)
(* A script is a sequence of print statements; each prints one string      *)
(* literal, written on one source line or, triple-quoted, on several.      *)
(* Texts are sequences of pieces: a word, "\n", or "    " (four spaces).   *)
(***************************************************************************)
MaxStmts == 2
MaxLiteralLines == 2

Words == {"hi", "await ", "mcp_client.call_tool"}
Literals == UNION {[1..n -> Words] : n \in 1..MaxLiteralLines}
PrintScripts == UNION {[1..n -> Literals] : n \in 1..MaxStmts}

\* code.split(chr(10)): the source lines; a line opens a print statement or
\* continues the string literal of the one before
SourceLines(stmts) ==
  LET RECURSIVE Flat(_)
      Flat(k) ==
        IF k > Len(stmts) THEN <<>>
        ELSE [i \in 1..Len(stmts[k]) |-> [opens |-> i = 1, text |-> <<stmts[k][i]>>]] \o Flat(k + 1)
  IN Flat(1)

\* lines 194-198
needs_async(lines) ==
  \E i \in DOMAIN lines : \E j \in DOMAIN lines[i].text :
    lines[i].text[j] \in {"await ", "async ", "mcp_client.call_tool"}

\* line 206: '    ' + line for every source line
Indented(lines) == [i \in DOMAIN lines |-> [lines[i] EXCEPT !.text = <<"    ">> \o @]]

\* exec of the print statements: the indentation of a line that opens a
\* statement is layout, the leading spaces of a line inside a literal belong
\* to the string; print() adds the newline
RunPrints(lines) ==
  LET RECURSIVE Strip(_)
      Strip(t) == IF t # <<>> /\ Head(t) = "    " THEN Strip(Tail(t)) ELSE t
      RECURSIVE Out(_)
      Out(i) ==
        IF i > Len(lines) THEN <<"\n">>
        ELSE (IF i > 1 THEN <<"\n">> ELSE <<>>)
               \o (IF lines[i].opens THEN Strip(lines[i].text) ELSE lines[i].text)
               \o Out(i + 1)
  IN Out(1)

\* lines 190-216 for a script that raises nothing
execute_prints(stmts) ==
  LET lines == SourceLines(stmts)
  IN IF needs_async(lines)
       THEN [success |-> TRUE, output |-> RunPrints(Indented(lines)), wrapped |-> TRUE]
       ELSE [success |-> TRUE, output |-> RunPrints(lines), wrapped |-> FALSE]

ExecutePrints(stmts) ==
  /\ print_script' = stmts
  /\ print_result' = execute_prints(stmts)
  /\ UNCHANGED <<asyncVars, syncVars, openVars, envVars, leakVars, catalogVars, instanceVars,
                 searchVars, taskVars, serversVars, metricsVars, validateVars>>

InitWrap ==
  /\ IdleAsync /\ IdleSync /\ IdleOpen /\ IdleEnv
  /\ IdleLeak /\ IdleCatalog /\ IdleInstance /\ IdleSearch /\ IdleTask
  /\ IdleServers /\ IdleMetrics /\ IdleValidate /\ IdleWrap

NextWrap == \E stmts \in PrintScripts : ExecutePrints(stmts)

SpecWrap == InitWrap /\ [][NextWrap]_vars

\* the text the statements print as they are written: each literal, its lines
\* joined by newlines, and the newline print() adds
Printed(stmts) ==
  LET RECURSIVE JoinLines(_, _)
      JoinLines(lit, i) ==
        IF i > Len(lit) THEN <<"\n">>
        ELSE (IF i > 1 THEN <<"\n">> ELSE <<>>) \o <<lit[i]>> \o JoinLines(lit, i + 1)
      RECURSIVE All(_)
      All(k) == IF k > Len(stmts) THEN <<>> ELSE JoinLines(stmts[k], 1) \o All(k + 1)
  IN All(1)

\* C23: a script made only of print statements succeeds and its output is
\* exactly the text it prints, whether it is run directly or wrapped (its
\* source holding 'await ', 'async ' or 'mcp_client.call_tool').
C23_PrintOutputExact ==
  print_script # <<>> =>
    /\ print_result.success
    /\ print_result.output = Printed(print_script)

====
